---------------------------- MODULE Spec2Model ----------------------------
(***************************************************************************)
(* A model of protobuf-lsp's core: the line-oriented scanner               *)
(* (src/src/parser/proto.rs), the import resolver                          *)
(* (src/src/parser/resolver.rs) and the workspace cache                    *)
(* (src/src/workspace/manager.rs).                                         *)
(*                                                                         *)
(* Source text is modelled as a sequence of lines, each line a string.     *)
(* Positions are 0-based byte offsets as in the Rust source; an absent     *)
(* position (Option::None of str::find) is NoPos.  An Option<T> is the     *)
(* empty sequence (None) or a one-element sequence (Some).                 *)
(***************************************************************************)
EXTENDS Integers, Sequences, FiniteSets, TLC

(***************************************************************************)
(* str primitives of the Rust standard library, as the scanner uses them.  *)
(***************************************************************************)

\* Option::None of str::find
NoPos == 0 - 1

None == <<>>

Some(x) == <<x>>

IsSome(o) == Len(o) = 1

Unwrap(o) == o[1]

\* &s[a..b]; the caller guarantees a <= b <= len (Rust panics otherwise)
Substr(s, a, b) == SubSeq(s, a + 1, b)

\* &s[a..]
SubstrFrom(s, a) == SubSeq(s, a + 1, Len(s))

CharAt(s, i) == SubSeq(s, i + 1, i + 1)

MatchAt(s, p, i) == i + Len(p) <= Len(s) /\ SubSeq(s, i + 1, i + Len(p)) = p

\* str::find
Find(s, p) ==
    LET hits == {i \in 0..(Len(s) - Len(p)) : MatchAt(s, p, i)}
    IN  IF hits = {} THEN NoPos ELSE CHOOSE i \in hits : \A j \in hits : i <= j

Contains(s, p) == Find(s, p) # NoPos

StartsWith(s, p) == MatchAt(s, p, 0)

EndsWith(s, p) == Len(p) <= Len(s) /\ MatchAt(s, p, Len(s) - Len(p))

IsSpace(c) == c \in {" ", "\t"}

RECURSIVE TrimStart(_)
TrimStart(s) ==
    IF Len(s) > 0 /\ IsSpace(CharAt(s, 0)) THEN TrimStart(SubstrFrom(s, 1)) ELSE s

RECURSIVE TrimEnd(_)
TrimEnd(s) ==
    IF Len(s) > 0 /\ IsSpace(CharAt(s, Len(s) - 1))
    THEN TrimEnd(Substr(s, 0, Len(s) - 1))
    ELSE s

\* str::trim
Trim(s) == TrimEnd(TrimStart(s))

\* str::trim_start_matches: strips the prefix repeatedly
RECURSIVE TrimStartMatches(_, _)
TrimStartMatches(s, p) ==
    IF Len(p) > 0 /\ StartsWith(s, p)
    THEN TrimStartMatches(SubstrFrom(s, Len(p)), p)
    ELSE s

\* str::trim_end_matches: strips the suffix repeatedly
RECURSIVE TrimEndMatches(_, _)
TrimEndMatches(s, p) ==
    IF Len(p) > 0 /\ EndsWith(s, p)
    THEN TrimEndMatches(Substr(s, 0, Len(s) - Len(p)), p)
    ELSE s

\* offset of the end of the word that starts at offset 0 of a non-empty s
WordEnd(s) ==
    LET stops == {i \in 0..Len(s) : i = Len(s) \/ IsSpace(CharAt(s, i))}
    IN  CHOOSE i \in stops : \A j \in stops : i <= j

\* str::split_whitespace, collected
RECURSIVE SplitWhitespace(_)
SplitWhitespace(s) ==
    LET t == TrimStart(s)
    IN  IF Len(t) = 0
        THEN <<>>
        ELSE <<Substr(t, 0, WordEnd(t))>> \o SplitWhitespace(SubstrFrom(t, WordEnd(t)))

Digits == {"0", "1", "2", "3", "4", "5", "6", "7", "8", "9"}

DigitVal(c) ==
    CASE c = "0" -> 0 [] c = "1" -> 1 [] c = "2" -> 2 [] c = "3" -> 3 [] c = "4" -> 4
      [] c = "5" -> 5 [] c = "6" -> 6 [] c = "7" -> 7 [] c = "8" -> 8 [] c = "9" -> 9

AllDigits(s) == \A i \in 0..(Len(s) - 1) : CharAt(s, i) \in Digits

RECURSIVE DigitsVal(_)
DigitsVal(s) ==
    IF Len(s) = 0
    THEN 0
    ELSE 10 * DigitsVal(Substr(s, 0, Len(s) - 1)) + DigitVal(CharAt(s, Len(s) - 1))

\* str::parse::<i32>: an optional sign, then one or more digits, within i32
ParseI32(s) ==
    LET neg  == StartsWith(s, "-")
        body == IF neg \/ StartsWith(s, "+") THEN SubstrFrom(s, 1) ELSE s
        sig  == TrimStartMatches(body, "0")
        head == Substr(sig, 0, Len(sig) - 1)
        last == DigitVal(CharAt(sig, Len(sig) - 1))
        fits == \/ Len(sig) <= 9
                \/ /\ Len(sig) = 10
                   /\ \/ DigitsVal(head) < 214748364
                      \/ DigitsVal(head) = 214748364 /\ last <= (IF neg THEN 8 ELSE 7)
    IN  IF Len(body) = 0 \/ ~AllDigits(body) \/ ~fits
        THEN None
        ELSE IF neg
             THEN Some((0 - 10 * DigitsVal(head)) - (IF Len(sig) = 0 THEN 0 ELSE last))
             ELSE Some(10 * DigitsVal(head) + (IF Len(sig) = 0 THEN 0 ELSE last))

Upper ==
    {"A", "B", "C", "D", "E", "F", "G", "H", "I", "J", "K", "L", "M",
     "N", "O", "P", "Q", "R", "S", "T", "U", "V", "W", "X", "Y", "Z"}


(***************************************************************************)
(* The scanner: ProtoParser::parse_simple and its helpers.                 *)
(***************************************************************************)

\* `let x = e;` followed by the code F that uses x: e is evaluated once, to
\* a value, before F
Let(e, F(_)) == CHOOSE r \in {F(x) : x \in {e}} : TRUE

\* s.find(p).unwrap_or(0)
FindOr0(s, p) == Let(Find(s, p), LAMBDA pos : IF pos = NoPos THEN 0 ELSE pos)

\* HashMap::insert
MapPut(m, k, v) == [y \in (DOMAIN m) \cup {k} |-> IF y = k THEN v ELSE m[y]]

EmptyMap == <<>>

Last(s) == s[Len(s)]

Front(s) == SubSeq(s, 1, Len(s) - 1)

ReplaceLast(s, e) == [s EXCEPT ![Len(s)] = e]

\* the number of occurrences of the character c in a line
RECURSIVE CountChar(_, _)
CountChar(line, c) ==
    IF Len(line) = 0
    THEN 0
    ELSE (IF CharAt(line, 0) = c THEN 1 ELSE 0) + CountChar(SubstrFrom(line, 1), c)

BraceDelta(line) == CountChar(line, "{") - CountChar(line, "}")

\* The block comment handling of one line: the text left to scan and the new flag.
StripBlockComment(in_block_comment, line) ==
    IF in_block_comment
    THEN IF Find(line, "*/") # NoPos
         THEN [processed_line |-> SubstrFrom(line, Find(line, "*/") + 2),
               in_block_comment |-> FALSE]
         ELSE [processed_line |-> "", in_block_comment |-> TRUE]
    ELSE IF Find(line, "/*") # NoPos
         THEN LET start_pos == Find(line, "/*")
                  end_pos   == Find(SubstrFrom(line, start_pos), "*/")
              IN  IF end_pos # NoPos
                  THEN [processed_line |->
                            Substr(line, 0, start_pos) \o SubstrFrom(line, start_pos + end_pos + 2),
                        in_block_comment |-> FALSE]
                  ELSE [processed_line |-> Substr(line, 0, start_pos),
                        in_block_comment |-> TRUE]
         ELSE [processed_line |-> line, in_block_comment |-> FALSE]

is_valid_field_type(s) ==
    \/ s \in {"double", "float", "int32", "int64", "uint32", "uint64",
              "sint32", "sint64", "fixed32", "fixed64", "sfixed32", "sfixed64",
              "bool", "string", "bytes", "map"}
    \/ Contains(s, ".")
    \/ Len(s) > 0 /\ CharAt(s, 0) \in Upper

\* the text of a line before a `//`, trimmed; the line itself when it has none
WithoutLineComment(s) ==
    IF Find(s, "//") # NoPos THEN Trim(Substr(s, 0, Find(s, "//"))) ELSE s

\* Option<(field_name, field_type, number, char_pos)>
parse_field_simple(line, original_line) ==
    LET line_no_comment == WithoutLineComment(line)
        eq_pos       == Find(line_no_comment, "=")
        before_eq    == Trim(Substr(line_no_comment, 0, eq_pos))
        after_eq     == Trim(SubstrFrom(line_no_comment, eq_pos + 1))
        parts_before == SplitWhitespace(before_eq)
        field_type   == IF Len(parts_before) = 2 THEN parts_before[1] ELSE parts_before[2]
        field_name   == IF Len(parts_before) = 2 THEN parts_before[2] ELSE parts_before[3]
        bracket      == Find(after_eq, "[")
        first_part   == IF bracket = NoPos THEN after_eq ELSE Substr(after_eq, 0, bracket)
        number       == ParseI32(TrimEndMatches(Trim(first_part), ";"))
    IN  IF eq_pos = NoPos THEN None
        ELSE IF Len(parts_before) \notin {2, 3} THEN None
        ELSE IF ~is_valid_field_type(field_type) THEN None
        ELSE IF ~IsSome(number) THEN None
        ELSE Some([name |-> field_name, field_type |-> field_type,
                   number |-> Unwrap(number),
                   character |-> FindOr0(original_line, field_name)])

\* extract_service_block: the lines from the service line to the line on which
\* the braces opened since then are balanced again (or to the end of the text)
RECURSIVE ServiceBlockFrom(_, _, _, _)
ServiceBlockFrom(content, i, brace_count, found_open) ==
    IF i > Len(content)
    THEN <<>>
    ELSE LET line  == content[i]
             count == brace_count + BraceDelta(line)
             open  == found_open \/ Contains(line, "{")
         IN  IF open /\ count = 0
             THEN <<line>>
             ELSE <<line>> \o ServiceBlockFrom(content, i + 1, count, open)

\* block_lines.join("\n") read back with str::lines(): a final empty line is lost
JoinedLines(block_lines) ==
    IF Len(block_lines) > 0 /\ Last(block_lines) = "" THEN Front(block_lines) ELSE block_lines

extract_service_block(content, start_line) ==
    JoinedLines(ServiceBlockFrom(content, start_line + 1, 0, FALSE))

\* One `rpc` line of a service block: [panic, method], method an Option.
\* A slice &s[a..b] with a > b panics.
ParseRpcLine(trimmed, processed_line, line_num) ==
    LET parts        == SplitWhitespace(trimmed)
        start        == Find(trimmed, "(")
        end          == Find(trimmed, ")")
        returns_pos  == Find(trimmed, "returns")
        returns_part == SubstrFrom(trimmed, returns_pos + 7)
        out_start    == Find(returns_part, "(")
        out_end      == Find(returns_part, ")")
        input_words  == SplitWhitespace(Substr(trimmed, start + 1, end))
        output_words == SplitWhitespace(Substr(returns_part, out_start + 1, out_end))
        no_method    == [panic |-> FALSE, method |-> None]
    IN  IF Len(parts) < 4 \/ start = NoPos \/ end = NoPos THEN no_method
        ELSE IF start + 1 > end THEN [panic |-> TRUE, method |-> None]
        ELSE IF returns_pos = NoPos \/ out_start = NoPos \/ out_end = NoPos THEN no_method
        ELSE IF out_start + 1 > out_end THEN [panic |-> TRUE, method |-> None]
        ELSE [panic |-> FALSE,
              method |-> Some([name |-> parts[2],
                               input_type |-> IF Len(input_words) = 0 THEN "" ELSE input_words[1],
                               output_type |-> IF Len(output_words) = 0 THEN "" ELSE output_words[1],
                               client_streaming |-> FALSE,
                               server_streaming |-> FALSE,
                               line |-> line_num,
                               character |-> FindOr0(processed_line, "rpc")])]

\* The loop of parse_service_methods from line_offset on: [panic, methods].
RECURSIVE ServiceMethodsFrom(_, _, _, _, _)
ServiceMethodsFrom(service_content, service_start_line, line_offset, in_block_comment, methods) ==
    IF line_offset >= Len(service_content)
    THEN [panic |-> FALSE, methods |-> methods]
    ELSE Let(service_content[line_offset + 1], LAMBDA line :
         Let(StripBlockComment(in_block_comment, line), LAMBDA bc :
         Let(Trim(bc.processed_line), LAMBDA trimmed :
         Let(ParseRpcLine(trimmed, bc.processed_line, service_start_line + line_offset),
             LAMBDA rpc :
             Let(IF StartsWith(Trim(line), "//") THEN [skip |-> TRUE, flag |-> in_block_comment]
                 ELSE IF Len(trimmed) = 0 \/ ~StartsWith(trimmed, "rpc ")
                 THEN [skip |-> TRUE, flag |-> bc.in_block_comment]
                 ELSE [skip |-> FALSE, flag |-> bc.in_block_comment],
                 LAMBDA step :
                 IF ~step.skip /\ rpc.panic
                 THEN [panic |-> TRUE, methods |-> methods]
                 ELSE ServiceMethodsFrom(service_content, service_start_line,
                                         line_offset + 1, step.flag,
                                         IF step.skip THEN methods
                                         ELSE methods \o rpc.method))))))

parse_service_methods(service_content, service_start_line) ==
    ServiceMethodsFrom(service_content, service_start_line, 0, FALSE, <<>>)

Severity == {"Error", "Warning", "Info"}

ParseError(message, line, character, severity) ==
    [message |-> message, line |-> line, character |-> character, severity |-> severity]

\* the locals of parse_simple before the first line; `panicked` records that
\* the scan was unwound by a panic
ScanInit ==
    [package |-> None, imports |-> <<>>, messages |-> <<>>, enums |-> <<>>,
     services |-> <<>>, line_to_element |-> EmptyMap, parse_errors |-> <<>>,
     current_line |-> 0, message_stack |-> <<>>, enum_stack |-> <<>>,
     is_proto3 |-> FALSE, multiline_field |-> None, in_custom_option |-> FALSE,
     custom_option_brace_count |-> 0, in_block_comment |-> FALSE, panicked |-> FALSE]

QualifiedName(package, name) ==
    IF IsSome(package) THEN Unwrap(package) \o "." \o name ELSE name

\* `syntax = ...` sets the syntax version
SetSyntax(st, trimmed) ==
    IF StartsWith(trimmed, "syntax ")
    THEN IF Contains(trimmed, "\"proto3\"") THEN [st EXCEPT !.is_proto3 = TRUE]
         ELSE IF Contains(trimmed, "\"proto2\"") THEN [st EXCEPT !.is_proto3 = FALSE]
         ELSE st
    ELSE st

\* a tracker that closes on any line with `]`, whatever the brace count
TrackCustomOption_AnyBracket(st, line, trimmed) ==
    IF Contains(trimmed, "[") /\ Contains(trimmed, "(")
    THEN [st EXCEPT !.custom_option_brace_count = BraceDelta(line),
                    !.in_custom_option = ~Contains(trimmed, "]")]
    ELSE IF st.in_custom_option
    THEN [st EXCEPT !.custom_option_brace_count = @ + BraceDelta(line),
                    !.in_custom_option = ~Contains(trimmed, "]")]
    ELSE st

\* the custom option tracker
TrackCustomOption(st, line, trimmed) ==
    IF Contains(trimmed, "[") /\ Contains(trimmed, "(")
    THEN [st EXCEPT !.custom_option_brace_count = BraceDelta(line),
                    !.in_custom_option = ~(Contains(trimmed, "]") /\ BraceDelta(line) <= 0)]
    ELSE IF st.in_custom_option
    THEN LET count == st.custom_option_brace_count + BraceDelta(line)
         IN  [st EXCEPT !.custom_option_brace_count = count,
                        !.in_custom_option = ~(Contains(trimmed, "]") /\ count <= 0)]
    ELSE st

\* checks for common syntax errors that report nothing
SyntaxErrors_Silent(st, line, trimmed, line_number) == <<>>

\* the checks for common syntax errors
SyntaxErrors(st, line, trimmed, line_number) ==
    IF Len(trimmed) = 0 \/ StartsWith(trimmed, "//") \/ st.in_custom_option
    THEN <<>>
    ELSE (IF StartsWith(trimmed, "package ") /\ ~EndsWith(trimmed, ";")
          THEN <<ParseError("Missing semicolon after package declaration",
                            line_number, Len(line), "Error")>>
          ELSE <<>>)
         \o
         (IF StartsWith(trimmed, "import ") /\ ~EndsWith(trimmed, ";")
          THEN <<ParseError("Missing semicolon after import statement",
                            line_number, Len(line), "Error")>>
          ELSE <<>>)
         \o
         (IF trimmed \in {"message", "enum", "service"}
          THEN <<ParseError("Missing name after " \o trimmed \o " declaration",
                            line_number, FindOr0(line, trimmed), "Error")>>
          ELSE <<>>)

FirstWordOrEmpty(s) == IF Len(SplitWhitespace(s)) = 0 THEN "" ELSE SplitWhitespace(s)[1]

MessageFrame(name, line) ==
    [name |-> name, line |-> line, fields |-> <<>>, nested_messages |-> <<>>,
     nested_enums |-> <<>>]

EnumFrame(name, line) == [name |-> name, line |-> line, values |-> <<>>]

FieldElement(name, field_type, number, line, character) ==
    [name |-> name, field_type |-> field_type, type_name |-> None, number |-> number,
     label |-> None, line |-> line, character |-> character]

\* the FieldElement built from what parse_field_simple returned
ParsedField(parsed, line) ==
    FieldElement(parsed.name, parsed.field_type, parsed.number, line, parsed.character)

\* appends a field to the innermost open message
PushField(st, field) ==
    IF Len(st.message_stack) = 0
    THEN st
    ELSE [st EXCEPT !.message_stack =
              ReplaceLast(@, [Last(@) EXCEPT !.fields = Append(@, field)])]

PushError(st, err) == [st EXCEPT !.parse_errors = Append(@, err)]

\* the MessageElement of a popped frame
MessageOfFrame(st, content, frame, end_line) ==
    [name |-> frame.name,
     full_name |-> QualifiedName(st.package, frame.name),
     fields |-> frame.fields,
     nested_messages |-> frame.nested_messages,
     nested_enums |-> frame.nested_enums,
     line |-> frame.line,
     end_line |-> end_line,
     character |-> FindOr0(content[frame.line + 1], "message")]

\* a bare `}` with an enum frame open
CloseEnum(st, content, line_number) ==
    LET frame == Last(st.enum_stack)
        enum_elem == [name |-> frame.name,
                      full_name |-> QualifiedName(st.package, frame.name),
                      values |-> frame.values,
                      line |-> frame.line,
                      end_line |-> line_number,
                      character |-> FindOr0(content[frame.line + 1], "enum")]
        popped == [st EXCEPT !.enum_stack = Front(@),
                             !.line_to_element =
                                 MapPut(@, frame.line, [kind |-> "Enum", elem |-> enum_elem])]
    IN  IF Len(st.message_stack) > 0
        THEN [popped EXCEPT !.message_stack =
                  ReplaceLast(@, [Last(@) EXCEPT !.nested_enums = Append(@, enum_elem)])]
        ELSE [popped EXCEPT !.enums = Append(@, enum_elem)]

\* a bare `}` with no enum frame and a message frame open
CloseMessage(st, content, line_number) ==
    LET frame == Last(st.message_stack)
        msg == MessageOfFrame(st, content, frame, line_number)
        popped == [st EXCEPT !.message_stack = Front(@),
                             !.line_to_element =
                                 MapPut(@, frame.line, [kind |-> "Message", elem |-> msg])]
    IN  IF Len(popped.message_stack) > 0
        THEN [popped EXCEPT !.message_stack =
                  ReplaceLast(@, [Last(@) EXCEPT !.nested_messages = Append(@, msg)])]
        ELSE [popped EXCEPT !.messages = Append(@, msg)]

\* a variant that closes the innermost message frame before an open enum frame
CloseBrace_MessageFirst(st, content, line_number) ==
    IF Len(st.message_stack) > 0 THEN CloseMessage(st, content, line_number)
    ELSE IF Len(st.enum_stack) > 0 THEN CloseEnum(st, content, line_number)
    ELSE st

CloseBrace(st, content, line_number) ==
    IF Len(st.enum_stack) > 0 THEN CloseEnum(st, content, line_number)
    ELSE IF Len(st.message_stack) > 0 THEN CloseMessage(st, content, line_number)
    ELSE st

\* a variant that leaves the open message frames as they are
FlushMessageStack_Keep(st, content, line_number) == st

\* a `service` line first drains the message stack, innermost frame first
RECURSIVE FlushMessageStack(_, _, _)
FlushMessageStack(st, content, line_number) ==
    IF Len(st.message_stack) = 0
    THEN st
    ELSE LET frame == Last(st.message_stack)
             msg == MessageOfFrame(st, content, frame, line_number - 1)
         IN  FlushMessageStack(
                 [st EXCEPT !.message_stack = Front(@),
                            !.line_to_element =
                                MapPut(@, frame.line, [kind |-> "Message", elem |-> msg]),
                            !.messages = Append(@, msg)],
                 content, line_number)

ServiceElement(package, name, methods, processed_line, line_number) ==
    [name |-> name,
     full_name |-> QualifiedName(package, name),
     methods |-> methods,
     line |-> line_number,
     end_line |-> line_number,
     character |-> FindOr0(processed_line, "service")]

ServiceLine(st, content, trimmed, processed_line, line_number) ==
    Let(FlushMessageStack(st, content, line_number), LAMBDA flushed :
    Let(SplitWhitespace(trimmed), LAMBDA parts :
        IF Len(parts) < 2 THEN flushed
        ELSE Let(parse_service_methods(extract_service_block(content, line_number),
                                       line_number), LAMBDA found :
             IF found.panic THEN [flushed EXCEPT !.panicked = TRUE]
             ELSE Let(ServiceElement(st.package, parts[2], found.methods,
                                     processed_line, line_number), LAMBDA service_elem :
                  [flushed EXCEPT !.line_to_element =
                                      MapPut(@, line_number,
                                             [kind |-> "Service", elem |-> service_elem]),
                                  !.services = Append(@, service_elem)]))))

\* a line scanned with an enum frame open
EnumValueLine(st, trimmed, line_number) ==
    LET parts  == SplitWhitespace(WithoutLineComment(trimmed))
        number == ParseI32(TrimEndMatches(parts[3], ";"))
        value  == [name |-> parts[1], number |-> Unwrap(number), line |-> line_number,
                   character |-> 4]
    IN  IF Contains(trimmed, "=") /\ EndsWith(trimmed, ";") /\ Len(parts) >= 3
           /\ IsSome(number)
        THEN [st EXCEPT !.enum_stack =
                  ReplaceLast(@, [Last(@) EXCEPT !.values = Append(@, value)])]
        ELSE st

\* the line after a field whose declaration stopped at `=`
MultilineContinuation(st, trimmed, line_number) ==
    LET pending == Unwrap(st.multiline_field)
        taken   == [st EXCEPT !.multiline_field = None]
        words   == SplitWhitespace(TrimEndMatches(WithoutLineComment(trimmed), ";"))
        number  == ParseI32(Last(words))
    IN  IF ~Contains(trimmed, ";") THEN st
        ELSE IF Len(words) = 0 THEN taken
        ELSE IF IsSome(number)
        THEN PushField(taken, FieldElement(pending.field_name, pending.field_type,
                                           Unwrap(number), pending.start_line, 0))
        ELSE PushError(taken, ParseError("Invalid field number: '" \o Last(words) \o "'",
                                         line_number, 0, "Error"))

\* a field line that starts with optional, required or repeated
LabelledFieldLine(st, trimmed, processed_line, line_number) ==
    Let(SplitWhitespace(trimmed), LAMBDA parts :
        IF Len(parts) < 3 THEN st
        ELSE IF EndsWith(trimmed, "=")
        THEN [st EXCEPT !.multiline_field =
                  Some([field_name |-> parts[3], field_type |-> parts[2],
                        start_line |-> line_number])]
        ELSE IF Contains(trimmed, "=") /\ Contains(trimmed, ";")
        THEN Let(parse_field_simple(trimmed, processed_line), LAMBDA parsed :
             IF IsSome(parsed)
             THEN PushField(st, ParsedField(Unwrap(parsed), line_number))
             ELSE PushError(st, ParseError(
                      "Invalid field syntax: '" \o trimmed
                          \o "'. Expected format: [optional|required|repeated] type name = number;",
                      line_number, 0, "Error")))
        ELSE st)

\* a field line without a label
PlainFieldLine(st, trimmed, processed_line, line_number) ==
    Let(parse_field_simple(trimmed, processed_line), LAMBDA parsed :
        IF IsSome(parsed)
        THEN PushField(st, ParsedField(Unwrap(parsed), line_number))
        ELSE IF Contains(trimmed, "[") /\ Contains(trimmed, "]")
        THEN st
        ELSE PushError(st, ParseError(
                 "Invalid field syntax: '" \o trimmed
                     \o "'. Expected format: type name = number;",
                 line_number, 0, "Error")))

\* the last branch of the field chain: lines that look like nothing known
OtherLine(st, trimmed, line_number) ==
    IF \/ StartsWith(trimmed, "message ") \/ StartsWith(trimmed, "enum ")
       \/ StartsWith(trimmed, "service ") \/ trimmed = "}"
       \/ StartsWith(trimmed, "//") \/ StartsWith(trimmed, "/*")
       \/ StartsWith(trimmed, "option ") \/ StartsWith(trimmed, "extend ")
       \/ StartsWith(trimmed, "rpc ") \/ StartsWith(trimmed, "returns ")
       \/ StartsWith(trimmed, "map<")
    THEN st
    ELSE IF /\ Contains(trimmed, ":")
            /\ \/ Contains(trimmed, "description:") \/ Contains(trimmed, "required:")
               \/ Contains(trimmed, "hidden:") \/ Contains(trimmed, "default=")
    THEN st
    ELSE IF StartsWith(trimmed, "},") \/ StartsWith(trimmed, "}]")
    THEN st
    ELSE IF Len(trimmed) > 0 /\ ~EndsWith(trimmed, ";") /\ ~EndsWith(trimmed, "{")
            /\ ~EndsWith(trimmed, "}")
    THEN PushError(st, ParseError(
             "Unexpected syntax: '" \o trimmed \o "'. If this is a field, it should end with ';'",
             line_number, 0, "Warning"))
    ELSE st

\* a line scanned with a message frame open, outside a custom option
FieldLine(st, line, trimmed, processed_line, line_number) ==
    IF IsSome(st.multiline_field)
    THEN MultilineContinuation(st, trimmed, line_number)
    ELSE IF \/ StartsWith(trimmed, "optional ") \/ StartsWith(trimmed, "required ")
            \/ StartsWith(trimmed, "repeated ")
    THEN LabelledFieldLine(st, trimmed, processed_line, line_number)
    ELSE IF Contains(trimmed, "=") /\ Contains(trimmed, ";")
    THEN PlainFieldLine(st, trimmed, processed_line, line_number)
    ELSE IF StartsWith(trimmed, "optional ") /\ st.is_proto3 /\ ~Contains(trimmed, "=")
    THEN PushError(st, ParseError(
             "'optional' keyword is not valid in proto3 syntax. In proto3, all fields are optional by default. Use 'optional' only for proto2 syntax or with 'oneof' in proto3.",
             line_number, FindOr0(line, "optional"), "Error"))
    ELSE OtherLine(st, trimmed, line_number)

\* the if / else-if chain that classifies a line
ClassifyLine(st, content, line, trimmed, processed_line, line_number) ==
    IF StartsWith(trimmed, "package ")
    THEN [st EXCEPT !.package =
              Some(Trim(TrimEndMatches(TrimStartMatches(trimmed, "package "), ";")))]
    ELSE IF StartsWith(trimmed, "import ")
    THEN [st EXCEPT !.imports = Append(@,
              [path |-> TrimEndMatches(
                            TrimEndMatches(
                                TrimStartMatches(TrimStartMatches(trimmed, "import "), "\""),
                                "\";"),
                            "\""),
               line |-> line_number,
               character |-> FindOr0(processed_line, "import")])]
    ELSE IF StartsWith(trimmed, "enum ")
    THEN [st EXCEPT !.enum_stack = Append(@,
              EnumFrame(FirstWordOrEmpty(TrimStartMatches(trimmed, "enum ")), line_number))]
    ELSE IF StartsWith(trimmed, "message ")
    THEN [st EXCEPT !.message_stack = Append(@,
              MessageFrame(FirstWordOrEmpty(TrimStartMatches(trimmed, "message ")),
                           line_number))]
    ELSE IF trimmed = "}"
    THEN CloseBrace(st, content, line_number)
    ELSE IF StartsWith(trimmed, "service")
    THEN ServiceLine(st, content, trimmed, processed_line, line_number)
    ELSE IF Len(st.enum_stack) > 0 /\ Len(trimmed) > 0 /\ ~StartsWith(trimmed, "//")
    THEN EnumValueLine(st, trimmed, line_number)
    ELSE IF Len(st.message_stack) > 0 /\ Len(trimmed) > 0 /\ ~StartsWith(trimmed, "//")
            /\ ~st.in_custom_option
    THEN FieldLine(st, line, trimmed, processed_line, line_number)
    ELSE st

\* One iteration of the loop of parse_simple: the line with index line_idx.
ScanLine(st, content, line_idx) ==
    Let(content[line_idx + 1], LAMBDA line :
        IF StartsWith(Trim(line), "//") THEN st
        ELSE Let(StripBlockComment(st.in_block_comment, line), LAMBDA bc :
             Let(Trim(bc.processed_line), LAMBDA trimmed :
             Let([st EXCEPT !.in_block_comment = bc.in_block_comment], LAMBDA flagged :
                 IF Len(trimmed) = 0 THEN flagged
                 ELSE Let(TrackCustomOption(SetSyntax(flagged, trimmed), line, trimmed),
                          LAMBDA tracked :
                      Let([tracked EXCEPT !.parse_errors =
                               @ \o SyntaxErrors(tracked, line, trimmed, line_idx)],
                          LAMBDA checked :
                      Let(ClassifyLine(checked, content, line, trimmed, bc.processed_line,
                                       line_idx), LAMBDA scanned :
                          IF scanned.panicked THEN scanned
                          ELSE [scanned EXCEPT !.current_line = @ + 1])))))))

\* the ParsedProto that parse_simple returns after the last line
ParsedProto(uri, st) ==
    [uri |-> uri, package |-> st.package, imports |-> st.imports,
     messages |-> st.messages, enums |-> st.enums, services |-> st.services,
     line_to_element |-> st.line_to_element, parse_errors |-> st.parse_errors,
     file_descriptor |-> None]

\* the loop of parse_simple from line line_idx on
RECURSIVE ScanFrom(_, _, _)
ScanFrom(st, content, line_idx) ==
    IF line_idx >= Len(content) \/ st.panicked
    THEN st
    ELSE ScanFrom(ScanLine(st, content, line_idx), content, line_idx + 1)

\* parse_simple: Some(ParsedProto), or None when the scan panicked
parse_simple(uri, content) ==
    Let(ScanFrom(ScanInit, content, 0), LAMBDA st :
        IF st.panicked THEN None ELSE Some(ParsedProto(uri, st)))

(***************************************************************************)
(* Paths and the import resolver.  A path is the sequence of its           *)
(* components; the first component of an absolute path is "/".             *)
(***************************************************************************)

\* the components of a path written as a string
RECURSIVE PathComponents(_)
PathComponents(str) ==
    IF Len(str) = 0 THEN <<>>
    ELSE IF StartsWith(str, "/") THEN PathComponents(SubstrFrom(str, 1))
    ELSE Let(Find(str, "/"), LAMBDA slash :
             IF slash = NoPos THEN <<str>>
             ELSE <<Substr(str, 0, slash)>> \o PathComponents(SubstrFrom(str, slash)))

\* Path::new(str)
PathOf(str) ==
    IF StartsWith(str, "/") THEN <<"/">> \o PathComponents(str) ELSE PathComponents(str)

IsAbsolute(path) == Len(path) > 0 /\ path[1] = "/"

\* Path::parent: None for the root and for the empty path
PathParent(path) ==
    IF Len(path) = 0 \/ path = <<"/">> THEN None ELSE Some(Front(path))

\* Path::join: an absolute argument replaces the path
PathJoin(dir, str) ==
    Let(PathOf(str), LAMBDA path : IF IsAbsolute(path) THEN path ELSE dir \o path)

\* Path::exists
Exists(fs, path) == path \in DOMAIN fs

\* the loop over additional_dirs from index i on
RECURSIVE FirstInDirs(_, _, _, _)
FirstInDirs(fs, dirs, str, i) ==
    IF i >= Len(dirs) THEN None
    ELSE Let(PathJoin(dirs[i + 1], str), LAMBDA candidate :
             IF Exists(fs, candidate) THEN Some(candidate)
             ELSE FirstInDirs(fs, dirs, str, i + 1))

\* the upward walk from directory dir
RECURSIVE WalkUp(_, _, _)
WalkUp(fs, dir, str) ==
    Let(PathJoin(dir, str), LAMBDA candidate :
        IF Exists(fs, candidate) THEN Some(candidate)
        ELSE Let(PathParent(dir), LAMBDA parent :
                 IF parent = None \/ parent = Some(dir) THEN None
                 ELSE WalkUp(fs, Unwrap(parent), str)))

\* ImportResolver::resolve_import
resolve_import(fs, dirs, file, str) ==
    Let(FirstInDirs(fs, dirs, str, 0), LAMBDA found :
        IF IsSome(found) THEN found
        ELSE Let(PathParent(file), LAMBDA parent :
                 IF parent = None THEN None
                 ELSE Let(PathJoin(Unwrap(parent), str), LAMBDA candidate :
                          IF Exists(fs, candidate) THEN Some(candidate)
                          ELSE WalkUp(fs, Unwrap(parent), str))))

(***************************************************************************)
(* The workspace manager: identities, the file system, the cache.          *)
(***************************************************************************)

\* the string of a path
RECURSIVE PathString(_)
PathString(path) ==
    IF Len(path) = 0 THEN ""
    ELSE IF path = <<"/">> THEN "/"
    ELSE IF Head(path) = "/" THEN PathString(Tail(path))
    ELSE "/" \o Head(path) \o PathString(Tail(path))

\* url_to_path: Url::to_file_path, which only a file URL has
url_to_path(url) ==
    IF StartsWith(url, "file:///") THEN Some(PathOf(SubstrFrom(url, 7))) ELSE None

\* path_to_url: Url::from_file_path, which only an absolute path has
path_to_url(path) ==
    IF IsAbsolute(path) THEN Some("file://" \o PathString(path)) ELSE None

\* a read that makes up a text for what it cannot read
read_to_string_Lenient(fs, path) ==
    IF path \in DOMAIN fs /\ fs[path].kind = "file"
    THEN Some(fs[path].text)
    ELSE Some(<<"package p;">>)

\* std::fs::read_to_string(path).ok()
read_to_string(fs, path) ==
    IF path \in DOMAIN fs /\ fs[path].kind = "file" THEN Some(fs[path].text) ELSE None

\* DashMap::get
files_get(m, key) == IF key \in DOMAIN m THEN Some(m[key]) ELSE None

\* an insert that replaces an entry field by field and is seen half-way
files_insert_Torn(m, key, value) ==
    IF key \in DOMAIN m
    THEN MapPut(m, key, [value EXCEPT !.messages = m[key].messages])
    ELSE MapPut(m, key, value)

\* DashMap::insert
files_insert(m, key, value) == MapPut(m, key, value)

\* a remove that leaves the entry in place
files_remove_Kept(m, key) == m

\* a remove that takes the other entries of the map along
files_remove_Clear(m, key) == EmptyMap

\* DashMap::remove
files_remove(m, key) == [y \in (DOMAIN m) \ {key} |-> m[y]]

\* Url::parse of the string of a Url
url_parse(str) == IF Find(str, ":") = NoPos THEN None ELSE Some(str)

\* WorkspaceManager::resolve_import
manager_resolve_import(fs, dirs, current_uri, str) ==
    Let(url_to_path(current_uri), LAMBDA current_path :
        IF current_path = None THEN None
        ELSE resolve_import(fs, dirs, Unwrap(current_path), str))

\* get_imported_file up to the read of the file: which return is taken (why),
\* the identity of the import (target) and the cached document or the text read
ImportLookup(m, fs, dirs, current_uri, str) ==
    Let(manager_resolve_import(fs, dirs, current_uri, str), LAMBDA resolved_path :
        IF resolved_path = None
        THEN [why |-> "unresolved", target |-> None, cached |-> None, text |-> None]
        ELSE Let(path_to_url(Unwrap(resolved_path)), LAMBDA import_uri :
             IF import_uri = None
             THEN [why |-> "no_url", target |-> None, cached |-> None, text |-> None]
             ELSE Let(files_get(m, Unwrap(import_uri)), LAMBDA cached :
                  IF IsSome(cached)
                  THEN [why |-> "cached", target |-> import_uri, cached |-> cached,
                        text |-> None]
                  ELSE Let(read_to_string(fs, Unwrap(resolved_path)), LAMBDA text :
                       IF text = None
                       THEN [why |-> "unreadable", target |-> import_uri, cached |-> None,
                             text |-> None]
                       ELSE [why |-> "read", target |-> import_uri, cached |-> None,
                             text |-> text]))))

\* get_imported_file_cached: the return taken (why), the identity of the
\* import (target) and the cached document
CachedLookup(m, fs, dirs, current_uri, str) ==
    Let(manager_resolve_import(fs, dirs, current_uri, str), LAMBDA resolved_path :
        IF resolved_path = None
        THEN [why |-> "unresolved", target |-> None, cached |-> None]
        ELSE Let(path_to_url(Unwrap(resolved_path)), LAMBDA import_uri :
             IF import_uri = None
             THEN [why |-> "no_url", target |-> None, cached |-> None]
             ELSE Let(files_get(m, Unwrap(import_uri)), LAMBDA cached :
                  [why |-> IF IsSome(cached) THEN "cached" ELSE "not_cached",
                   target |-> import_uri, cached |-> cached])))

\* a HashSet::contains that finds nothing
visited_contains_Never(v, u) == FALSE

\* HashSet::contains on the visited set
visited_contains(v, u) == u \in v

\* a HashSet::insert that is lost
visited_insert_Dropped(v, u) == v

\* HashSet::insert on the visited set
visited_insert(v, u) == v \cup {u}

(***************************************************************************)
(* State.                                                                  *)
(***************************************************************************)
VARIABLES
    \* one ProtoParser and the parse call it serves
    parser_cache,    \* ProtoParser.cache: uri -> ParsedProto
    parse_pc,        \* "idle" | "scanning" | "returned" | "panicked"
    parse_uri,       \* the uri argument of the call
    parse_content,   \* the content argument of the call, as lines
    parse_line_idx,  \* the index of the next line of the loop of parse_simple
    parse_scan,      \* the locals of parse_simple
    parse_result,    \* what the call returned: None while it has not returned
    parse_prev       \* what the call before this one returned, when both were handed
                     \* the same text; None otherwise

parseVars ==
    <<parser_cache, parse_pc, parse_uri, parse_content, parse_line_idx, parse_scan, parse_result,
      parse_prev>>

VARIABLES
    \* the file system and the resolver's configuration
    disk,            \* path -> what is at that path; a path outside the domain does not exist
    additional_dirs  \* ImportResolver.additional_dirs

VARIABLES
    \* the Arc<ParsedProto> allocations behind the cache and a client's handles
    arcs,            \* address -> the ParsedProto of the allocation; live allocations only
    entries,         \* WorkspaceManager.files as stored: identity -> address
    held             \* the handles a client keeps: the address, the document as obtained

handleVars == <<arcs, entries, held>>

VARIABLES
    \* the language server around the workspace manager
    document_contents,  \* ProtobufLanguageServer.document_contents: identity -> text
    closed_docs,        \* the identities closed by a did_close after which no open or
                        \* change notification of the identity arrived
    failed_docs         \* the identities one of whose handlers had its open_file fail

serverVars == <<document_contents, closed_docs, failed_docs>>

envVars == <<disk, additional_dirs, handleVars, serverVars>>

VARIABLES
    \* one call of ImportResolver::resolve_import
    resolve_pc,      \* "idle" | "additional" | "parent" | "walk" | "done"
    current_file,    \* the current_file argument
    import_path,     \* the import_path argument
    dir_idx,         \* the index of the loop over additional_dirs
    current,         \* the directory of the upward walk, an Option
    resolved         \* the returned Option<PathBuf>

resolveVars == <<resolve_pc, current_file, import_path, dir_idx, current, resolved>>

VARIABLES
    \* the workspace manager and the calls made on it
    files,           \* WorkspaceManager.files: identity -> ParsedProto
    task,            \* each task's position in the call it is making
    ret,             \* the call that returned last: its arguments, its result
    last_call        \* per identity, the last open_file or close_file that took effect

wsVars == <<files, task, ret, last_call>>

VARIABLES
    \* one call of collect_all_imports_async
    collect_pc,      \* "idle" | "running" | "done" | "panicked" | "overflow"
    stack,           \* the frames of collect_imports_recursive_async
    all_imports,     \* the result vector
    visited,         \* the visited identities
    interference,    \* whether another task or a failed write disturbed the collection
    \* one call of get_symbols_by_package
    symbols_pc,          \* "idle" | "collecting" | "done"
    symbols_proto,       \* what its get_file(current_uri) returned
    symbols_by_package   \* the returned map: package name -> the symbols pushed, in order

symbolVars == <<symbols_pc, symbols_proto, symbols_by_package>>

collectVars == <<collect_pc, stack, all_imports, visited, interference, symbolVars>>

vars == <<parseVars, envVars, resolveVars, wsVars, collectVars>>

(***************************************************************************)
(* ProtoParser::parse, one loop iteration of parse_simple per step.        *)
(***************************************************************************)

\* the longest text handed to the parser
MaxLines == 3

\* the lines the texts handed to the parser are made of
ParseLines ==
    {"package p;",
     "message M {",
     "int32 x = 1;",
     "}",
     "enum",
     "/* c",
     "service S {",
     "rpc A(B) returns (C);",
     "rpc A(B) returns )(",
     "message",
     "service"}

RECURSIVE TextsUpTo(_, _)
TextsUpTo(lines, n) ==
    IF n = 0
    THEN {<<>>}
    ELSE TextsUpTo(lines, n - 1)
         \cup {Append(t, l) : t \in TextsUpTo(lines, n - 1), l \in lines}

\* the starts of a field declaration that stops at `=`
FieldStarts == {"int32 x =", "optional int32 x =", "repeated int32 x ="}

\* longer texts: nested blocks, a oneof, fields over two lines, a block on one
\* line, a block comment over several lines
ScanTexts ==
    {<<"package p;", "message A {", "message B {", "enum E {", "}", "}", "}">>,
     <<"message A {", "message B {", "message C {", "}", "}", "}">>,
     <<"message A {", "message B {", "}", "}">>,
     <<"message A {", "enum E {", "}", "message B {", "}", "}">>,
     <<"message A {", "oneof o {", "int32 x = 1;", "}", "message B {", "}", "}">>,
     <<"message A {", "enum E {", "V = 0;", "}", "}">>,
     <<"enum E {", "V = 0;", "}", "}">>,
     <<"message M { int32 x = 1; }">>,
     <<"message M {", "} // end">>,
     <<"package p; // c">>,
     <<"import \"b\"; // c">>,
     <<"message M { // c", "}">>,
     <<"enum E { // c", "}">>,
     <<"/* c", "// */", "message M {", "}">>,
     <<"/* start", "middle", "end */ message M {}">>,
     <<"/* start", "middle", "end */", "message M {}">>}
    \cup {<<"message M {", start, "1;", "}">> : start \in FieldStarts}

\* texts with one service block: with and without a package, with and without
\* stream before the input and the output type
RpcTexts ==
    {<<"package test;", "service UserService {",
       "rpc GetUser(GetUserRequest) returns (GetUserResponse);",
       "rpc ListUsers(ListUsersRequest) returns (stream ListUsersResponse);",
       "rpc UpdateUser(stream UpdateUserRequest) returns (UpdateUserResponse);", "}">>,
     <<"package test;", "service UserService {",
       "rpc GetUser(GetUserRequest) returns (GetUserResponse);", "}">>,
     <<"service S {", "rpc A(B) returns (C);", "rpc D(E) returns (F);", "}">>}

\* texts with block comments that open after, close before and sit inside the
\* text of a line
BlockTexts ==
    {<<"message M { /* c", "int32 y = 2;", "c */ int32 x = 1;", "}">>,
     <<"message M {", "int32 /* c */ x = 1;", "}">>,
     <<"message M {", "int32 x = 1; /* c", "}", "*/ }">>,
     <<"/* c */ package p;">>,
     <<"package p; /* c", "message", "*/ message M {", "}">>,
     <<"message M {", "int32 x = 1 [(o) = 1]; /* { */", "int32 y = 2;", "}">>}

\* texts with bracketed option annotations on field lines
OptionTexts ==
    {<<"message M {", "int32 x = 1 [(o) = 1];", "int32 y = 2;", "}">>,
     <<"message M {", "int32 x = 1 [(o) = {", "a: 1", "}];", "int32 y = 2;", "}">>,
     <<"message M {", "int32 x = 1 [(o) = {", "int32 z = 3;", "a: [1]", "}];", "}">>,
     <<"message M {", "int32 x = 1 [(o) = 1,", "(q) = 2];", "int32 y", "}">>}

\* texts with a line of no known kind at the top level, in a message, in an enum
\* and in a nested message
UnknownTexts ==
    {<<"foo bar">>,
     <<"message M {", "foo bar", "}">>,
     <<"enum E {", "foo bar", "}">>,
     <<"message M {", "message N {", "foo bar", "}", "}">>}

\* texts that declare their syntax and use the `optional` keyword
SyntaxTexts ==
    {<<"syntax = \"proto3\";", "message M {", "optional int32 x = 1;", "}">>,
     <<"syntax = \"proto2\";", "message M {", "optional int32 x = 1;", "}">>,
     <<"syntax = \"proto3\";", "message M {", "optional int32 x", "}">>,
     <<"syntax = \"proto3\";", "message M {", "int32 x = 1;", "}">>}

ParseTexts ==
    TextsUpTo(ParseLines, MaxLines) \cup ScanTexts \cup RpcTexts \cup BlockTexts \cup OptionTexts
        \cup UnknownTexts \cup SyntaxTexts

\* the texts handed to a parser that is called again and again
ReparseTexts == {<<"package p;">>, <<"message M {", "}">>, <<"enum">>}

ParseUri == "file:///w/a"

Ok(v) == [ok |-> TRUE, value |-> v]

\* an Err of anyhow::Result
Err(e) == [ok |-> FALSE, value |-> e]

ParseInit ==
    /\ parser_cache = EmptyMap
    /\ parse_pc = "idle"
    /\ parse_uri = ""
    /\ parse_content = <<>>
    /\ parse_line_idx = 0
    /\ parse_scan = ScanInit
    /\ parse_result = None
    /\ parse_prev = None

ClientIdle ==
    /\ arcs = EmptyMap
    /\ entries = EmptyMap
    /\ held = <<>>
    /\ document_contents = EmptyMap
    /\ closed_docs = {}
    /\ failed_docs = {}

EnvIdle == disk = EmptyMap /\ additional_dirs = <<>> /\ ClientIdle

Tasks == {"t1", "t2"}

IdleTask == [pc |-> "idle"]

NoRet == [op |-> "none", uri |-> "", value |-> None, why |-> "", overlap |-> FALSE]

WsIdle ==
    /\ files = EmptyMap
    /\ task = [t \in Tasks |-> IdleTask]
    /\ ret = NoRet
    /\ last_call = EmptyMap

CollectIdle ==
    /\ collect_pc = "idle"
    /\ stack = <<>>
    /\ all_imports = <<>>
    /\ visited = {}
    /\ interference = FALSE
    /\ symbols_pc = "idle"
    /\ symbols_proto = None
    /\ symbols_by_package = EmptyMap

ResolveIdle ==
    /\ resolve_pc = "idle"
    /\ current_file = <<>>
    /\ import_path = ""
    /\ dir_idx = 0
    /\ current = None
    /\ resolved = None

\* parse is called on this parser with one of the texts: a cached uri returns
\* the cached document without looking at the text; otherwise the temporary
\* file is written, which the file system may refuse (tmp_ok), and the scan of
\* the text starts
ParseCall(texts) ==
    /\ parse_pc \in {"idle", "returned"}
    /\ \E text \in texts :
          /\ parse_uri' = ParseUri
          /\ parse_content' = text
          /\ parse_prev' = IF parse_pc = "returned" /\ text = parse_content
                           THEN parse_result
                           ELSE None
          /\ IF ParseUri \in DOMAIN parser_cache
             THEN /\ parse_pc' = "returned"
                  /\ parse_result' = Some(Ok(parser_cache[ParseUri]))
                  /\ UNCHANGED <<parse_line_idx, parse_scan>>
             ELSE \E tmp_ok \in BOOLEAN :
                     IF ~tmp_ok
                     THEN /\ parse_pc' = "returned"
                          /\ parse_result' = Some(Err("io"))
                          /\ UNCHANGED <<parse_line_idx, parse_scan>>
                     ELSE /\ parse_line_idx' = 0
                          /\ parse_scan' = ScanInit
                          /\ parse_pc' = "scanning"
                          /\ parse_result' = None
    /\ UNCHANGED <<parser_cache, envVars, resolveVars, wsVars, collectVars>>

\* ProtoParser::clear_cache, between two calls of parse
clear_cache ==
    /\ parse_pc = "returned"
    /\ parser_cache # EmptyMap
    /\ parser_cache' = EmptyMap
    /\ UNCHANGED <<parse_pc, parse_uri, parse_content, parse_line_idx, parse_scan, parse_result,
                   parse_prev, envVars, resolveVars, wsVars, collectVars>>

\* one iteration of the loop of parse_simple; a panic unwinds the call
ParseScanLine ==
    /\ parse_pc = "scanning"
    /\ parse_line_idx < Len(parse_content)
    /\ parse_scan' = ScanLine(parse_scan, parse_content, parse_line_idx)
    /\ parse_line_idx' = parse_line_idx + 1
    /\ parse_pc' = IF parse_scan'.panicked THEN "panicked" ELSE "scanning"
    /\ UNCHANGED <<parser_cache, parse_uri, parse_content, parse_result, parse_prev, envVars,
                   resolveVars, wsVars, collectVars>>

\* after the last line: the result is cached and returned
ParseReturn ==
    /\ parse_pc = "scanning"
    /\ parse_line_idx = Len(parse_content)
    /\ parser_cache' = MapPut(parser_cache, parse_uri, ParsedProto(parse_uri, parse_scan))
    /\ parse_result' = Some(Ok(ParsedProto(parse_uri, parse_scan)))
    /\ parse_pc' = "returned"
    /\ UNCHANGED <<parse_uri, parse_content, parse_line_idx, parse_scan, parse_prev, envVars,
                   resolveVars, wsVars, collectVars>>

\* one call of parse on a new parser, for every text
ParseNext ==
    \/ parse_pc = "idle" /\ ParseCall(ParseTexts)
    \/ ParseScanLine
    \/ ParseReturn

InitParse == ParseInit /\ EnvIdle /\ ResolveIdle /\ WsIdle /\ CollectIdle

SpecParse == InitParse /\ [][ParseNext]_vars

\* C1: for every source text, a call of parse whose temporary file could be
\* written returns a ParsedProto: the text never makes it return an error and
\* never unwinds it by a panic.
C1_ParseNeverFails ==
    /\ parse_pc # "panicked"
    /\ IsSome(parse_result) /\ ~Unwrap(parse_result).ok
           => Unwrap(parse_result).value = "io"

\* a sequence of calls of parse on one parser, the cache cleared now and then
ReparseNext ==
    \/ ParseCall(ReparseTexts)
    \/ ParseScanLine
    \/ ParseReturn
    \/ clear_cache

SpecReparse == InitParse /\ [][ReparseNext]_vars

\* the document a returned call handed back; meaningful when ReturnedOk
ReturnedDoc == Unwrap(parse_result).value

\* a call has returned a document
ReturnedOk == parse_pc = "returned" /\ IsSome(parse_result) /\ Unwrap(parse_result).ok

\* the words of a sequence joined by `.`
RECURSIVE JoinDots(_)
JoinDots(words) ==
    IF Len(words) = 0 THEN ""
    ELSE IF Len(words) = 1 THEN words[1]
    ELSE words[1] \o "." \o JoinDots(Tail(words))

\* the enums of a list, each with the line of the message that holds it
\* (NoPos at top level) and the names of the messages around it
EnumsOf(enums, parent, path) ==
    [i \in 1..Len(enums) |->
        [kind |-> "enum", name |-> enums[i].name, full_name |-> enums[i].full_name,
         line |-> enums[i].line, end_line |-> enums[i].end_line, parent |-> parent,
         path |-> path]]

\* the messages of a list and everything nested in them, likewise
RECURSIVE TreeOf(_, _, _)
TreeOf(msgs, parent, path) ==
    IF Len(msgs) = 0 THEN <<>>
    ELSE <<[kind |-> "message", name |-> Head(msgs).name,
            full_name |-> Head(msgs).full_name, line |-> Head(msgs).line,
            end_line |-> Head(msgs).end_line, parent |-> parent, path |-> path]>>
         \o EnumsOf(Head(msgs).nested_enums, Head(msgs).line, Append(path, Head(msgs).name))
         \o TreeOf(Head(msgs).nested_messages, Head(msgs).line,
                   Append(path, Head(msgs).name))
         \o TreeOf(Tail(msgs), parent, path)

\* every message and enum of a document
DocTree(doc) == TreeOf(doc.messages, NoPos, <<>>) \o EnumsOf(doc.enums, NoPos, <<>>)

\* C12: the full_name of every message and enum of a returned document (of a
\* text whose package line, if it has one, is its first line) is the package,
\* the names of the enclosing messages from the outermost to the innermost,
\* and the name of the element, joined by `.`.
C12_FullNameHasAncestors ==
    ReturnedOk /\ (\A j \in 2..Len(parse_content) : ~StartsWith(parse_content[j], "package ")) =>
        \A i \in 1..Len(DocTree(ReturnedDoc)) :
            DocTree(ReturnedDoc)[i].full_name =
                JoinDots((IF IsSome(ReturnedDoc.package)
                          THEN <<Unwrap(ReturnedDoc.package)>> ELSE <<>>)
                         \o DocTree(ReturnedDoc)[i].path
                         \o <<DocTree(ReturnedDoc)[i].name>>)

\* the lines of well-formed texts
WellFormedLines ==
    {"package p;", "message A {", "message B {", "message C {", "message M {",
     "enum E {", "oneof o {", "int32 x = 1;", "}"}

IsMessageOpener(line) == StartsWith(line, "message ") /\ EndsWith(line, "{")

IsEnumOpener(line) == StartsWith(line, "enum ") /\ EndsWith(line, "{")

IsOneofOpener(line) == StartsWith(line, "oneof ") /\ EndsWith(line, "{")

\* the indices (from 0) of the lines that opened the blocks still open before
\* the line of index i, outermost first; <<NoPos>> once a `}` closed nothing
RECURSIVE OpenBefore(_, _)
OpenBefore(content, i) ==
    IF i = 0 THEN <<>>
    ELSE Let(OpenBefore(content, i - 1), LAMBDA open :
             IF open = <<NoPos>> THEN open
             ELSE IF EndsWith(content[i], "{") THEN Append(open, i - 1)
             ELSE IF content[i] = "}" THEN (IF Len(open) = 0 THEN <<NoPos>> ELSE Front(open))
             ELSE open)

\* the line of the innermost message block open before the line of index i,
\* NoPos at top level
EnclosingMessage(content, i) ==
    Let(SelectSeq(OpenBefore(content, i), LAMBDA j : IsMessageOpener(content[j + 1])),
        LAMBDA messages : IF Len(messages) = 0 THEN NoPos ELSE Last(messages))

\* every line is a well-formed line, every block is closed by a `}` of its
\* own, a package line stands at top level, a message or an enum at top level
\* or directly in a message, a oneof directly in a message, a field in a
\* message or a oneof
WellFormed(content) ==
    /\ \A i \in 1..Len(content) : content[i] \in WellFormedLines
    /\ OpenBefore(content, Len(content)) = <<>>
    /\ \A i \in 1..Len(content) :
          Let(OpenBefore(content, i - 1), LAMBDA open :
              /\ open # <<NoPos>>
              /\ content[i] = "package p;" => open = <<>>
              /\ IsMessageOpener(content[i]) \/ IsEnumOpener(content[i])
                 => open = <<>> \/ IsMessageOpener(content[Last(open) + 1])
              /\ IsOneofOpener(content[i])
                 => open # <<>> /\ IsMessageOpener(content[Last(open) + 1])
              /\ content[i] = "int32 x = 1;"
                 => open # <<>> /\ ~IsEnumOpener(content[Last(open) + 1]))

\* the messages and enums a text declares, each with the line of the message
\* whose block encloses it
Declared(content) ==
    {[kind |-> IF IsMessageOpener(content[i]) THEN "message" ELSE "enum",
      line |-> i - 1,
      parent |-> EnclosingMessage(content, i - 1)] :
        i \in {j \in 1..Len(content) :
                  IsMessageOpener(content[j]) \/ IsEnumOpener(content[j])}}

\* C13: after the last line of a well-formed text both stacks are empty, and
\* the tree holds every declared message and enum once, under the message
\* whose block encloses it, at top level when none does.
C13_WellFormedTreeMatchesBlocks ==
    ReturnedOk /\ WellFormed(parse_content) =>
        /\ parse_scan.message_stack = <<>>
        /\ parse_scan.enum_stack = <<>>
        /\ Len(DocTree(ReturnedDoc)) = Cardinality(Declared(parse_content))
        /\ {[kind |-> DocTree(ReturnedDoc)[i].kind, line |-> DocTree(ReturnedDoc)[i].line,
             parent |-> DocTree(ReturnedDoc)[i].parent] :
                i \in 1..Len(DocTree(ReturnedDoc))} = Declared(parse_content)

\* C14: a field whose type and name stand on a line that ends in `=`, with or
\* without a label, and whose number and `;` stand on the next line, gives
\* the message one field of that name, type and number, at the first line.
C14_FieldOverTwoLines ==
    ReturnedOk /\ (\E start \in FieldStarts : parse_content = <<"message M {", start, "1;", "}">>) =>
        /\ Len(ReturnedDoc.messages) = 1
        /\ Len(ReturnedDoc.messages[1].fields) = 1
        /\ ReturnedDoc.messages[1].fields[1].name = "x"
        /\ ReturnedDoc.messages[1].fields[1].field_type = "int32"
        /\ ReturnedDoc.messages[1].fields[1].number = 1
        /\ ReturnedDoc.messages[1].fields[1].line = 1

\* C15: the one line `message M { int32 x = 1; }` gives one message M with one
\* field x of type int32 and number 1, its start line equal to its end line.
C15_MessageOnOneLine ==
    ReturnedOk /\ parse_content = <<"message M { int32 x = 1; }">> =>
        /\ Len(ReturnedDoc.messages) = 1
        /\ ReturnedDoc.messages[1].name = "M"
        /\ ReturnedDoc.messages[1].line = ReturnedDoc.messages[1].end_line
        /\ Len(ReturnedDoc.messages[1].fields) = 1
        /\ ReturnedDoc.messages[1].fields[1].name = "x"
        /\ ReturnedDoc.messages[1].fields[1].field_type = "int32"
        /\ ReturnedDoc.messages[1].fields[1].number = 1

\* C16: after a block comment over several lines, `message M {}` written
\* behind the closing `*/` (on its line or on the next) is a top-level message
\* of the document, at the line on which it is written.
C16_MessageAfterBlockComment ==
    /\ ReturnedOk /\ parse_content = <<"/* start", "middle", "end */ message M {}">> =>
          /\ Len(ReturnedDoc.messages) = 1
          /\ ReturnedDoc.messages[1].name = "M"
          /\ ReturnedDoc.messages[1].line = 2
    /\ ReturnedOk /\ parse_content = <<"/* start", "middle", "end */", "message M {}">> =>
          /\ Len(ReturnedDoc.messages) = 1
          /\ ReturnedDoc.messages[1].name = "M"
          /\ ReturnedDoc.messages[1].line = 3

\* the diagnostics of severity Error among errors
ErrorsOnly(errors) == SelectSeq(errors, LAMBDA e : e.severity = "Error")

\* C17: the scan of a line that is only the word message, enum or service
\* (outside a block comment and a custom option) adds one diagnostic of
\* severity Error, "Missing name after <word> declaration" at that line,
\* pushes no frame and records no message, enum or service at that line.
C17_KeywordAloneIsOneError ==
    [][/\ ParseScanLine
       /\ parse_content[parse_line_idx + 1] \in {"message", "enum", "service"}
       /\ ~parse_scan.in_block_comment
       /\ ~parse_scan.in_custom_option
       => /\ parse_pc' = "scanning"
          /\ Len(parse_scan'.parse_errors) > Len(parse_scan.parse_errors)
          /\ SubSeq(parse_scan'.parse_errors, 1, Len(parse_scan.parse_errors))
                = parse_scan.parse_errors
          /\ ErrorsOnly(SubSeq(parse_scan'.parse_errors, Len(parse_scan.parse_errors) + 1,
                               Len(parse_scan'.parse_errors)))
                = <<ParseError("Missing name after " \o parse_content[parse_line_idx + 1]
                                   \o " declaration",
                               parse_line_idx, 0, "Error")>>
          /\ Len(parse_scan'.message_stack) <= Len(parse_scan.message_stack)
          /\ parse_scan'.enum_stack = parse_scan.enum_stack
          /\ parse_scan'.services = parse_scan.services
          /\ parse_scan'.enums = parse_scan.enums
          /\ parse_line_idx \notin DOMAIN parse_scan'.line_to_element
          /\ \A i \in 1..Len(parse_scan'.messages) :
                parse_scan'.messages[i].line # parse_line_idx]_vars

\* C17 witness: the word message alone inside an open message; the call
\* returned a document whose diagnostics hold the Error of that line
C17_Witness ==
    /\ ReturnedOk
    /\ parse_content = <<"message M {", "message", "}">>
    /\ ErrorsOnly(ReturnedDoc.parse_errors)
          = <<ParseError("Missing name after message declaration", 1, 0, "Error")>>
    /\ Len(ReturnedDoc.messages) = 1

\* C18: two calls of parse in a row that are handed the same text for the
\* same uri, and both return a document, return equal documents.
C18_SameTextSameDocument ==
    ReturnedOk /\ IsSome(parse_prev) /\ Unwrap(parse_prev).ok => parse_result = parse_prev

\* C19: the document a call of parse returns is the document of the text the
\* call was handed, whatever calls the parser served before.
C19_DocumentOfOwnText ==
    ReturnedOk => Some(ReturnedDoc) = parse_simple(parse_uri, parse_content)

(***************************************************************************)
(* The import resolver, one step of its loops at a time.                   *)
(***************************************************************************)

FileEntry(text) == [kind |-> "file", text |-> text]

DirEntry == [kind |-> "dir"]

Unreadable == [kind |-> "unreadable"]

\* the directories above a path, which exist when the path does
RECURSIVE DirsAbove(_)
DirsAbove(path) ==
    IF PathParent(path) = None THEN {}
    ELSE {Unwrap(PathParent(path))} \cup DirsAbove(Unwrap(PathParent(path)))

\* the file system that holds the entries of fs and the directories above them
WithDirs(fs) ==
    LET dirs == UNION {DirsAbove(path) : path \in DOMAIN fs}
    IN  [path \in (DOMAIN fs) \cup dirs |-> IF path \in DOMAIN fs THEN fs[path] ELSE DirEntry]

ResolveFiles ==
    {PathOf("/inc1/b"), PathOf("/inc2/b"), PathOf("/inc1/s/b"),
     PathOf("/w/s/b"), PathOf("/w/b"), PathOf("/b")}

ResolveDirs == {PathOf("/inc1"), PathOf("/inc2"), PathOf("/w")}

ResolveCurrentFiles == {PathOf("/w/s/a"), PathOf("/w/a"), PathOf("/")}

ResolveImports == {"b", "s/b", "/w/b"}

MaxDirs == 2

InitResolve ==
    /\ ParseInit
    /\ ResolveIdle
    /\ WsIdle
    /\ CollectIdle
    /\ ClientIdle
    /\ additional_dirs = <<>>
    /\ \E present \in SUBSET ResolveFiles :
          disk = WithDirs([path \in present |-> FileEntry(<<>>)])

\* ImportResolver::add_directory
add_directory(dir) ==
    /\ resolve_pc \in {"idle", "done"}
    /\ Len(additional_dirs) < MaxDirs
    /\ additional_dirs' =
          IF \E i \in 1..Len(additional_dirs) : additional_dirs[i] = dir
          THEN additional_dirs
          ELSE Append(additional_dirs, dir)
    /\ UNCHANGED <<disk, handleVars, serverVars, parseVars, resolveVars, wsVars, collectVars>>

\* resolve_import is called
ResolveCall(file, str) ==
    /\ resolve_pc \in {"idle", "done"}
    /\ resolve_pc' = "additional"
    /\ current_file' = file
    /\ import_path' = str
    /\ dir_idx' = 0
    /\ current' = None
    /\ resolved' = None
    /\ UNCHANGED <<envVars, parseVars, wsVars, collectVars>>

\* a loop over additional_dirs that tries none of the roots
ResolveAdditional_Skipped ==
    /\ resolve_pc = "additional"
    /\ resolve_pc' = "parent"
    /\ UNCHANGED <<dir_idx, resolved, current_file, import_path, current, envVars, parseVars, wsVars, collectVars>>

\* one iteration of the loop over additional_dirs
ResolveAdditional ==
    /\ resolve_pc = "additional"
    /\ IF dir_idx < Len(additional_dirs)
       THEN IF Exists(disk, PathJoin(additional_dirs[dir_idx + 1], import_path))
            THEN /\ resolved' = Some(PathJoin(additional_dirs[dir_idx + 1], import_path))
                 /\ resolve_pc' = "done"
                 /\ UNCHANGED dir_idx
            ELSE /\ dir_idx' = dir_idx + 1
                 /\ UNCHANGED <<resolve_pc, resolved>>
       ELSE /\ resolve_pc' = "parent"
            /\ UNCHANGED <<dir_idx, resolved>>
    /\ UNCHANGED <<current_file, import_path, current, envVars, parseVars, wsVars, collectVars>>

\* the directory of the current file, then the start of the upward walk
ResolveParent ==
    /\ resolve_pc = "parent"
    /\ IF IsSome(PathParent(current_file))
          /\ Exists(disk, PathJoin(Unwrap(PathParent(current_file)), import_path))
       THEN /\ resolved' = Some(PathJoin(Unwrap(PathParent(current_file)), import_path))
            /\ resolve_pc' = "done"
            /\ UNCHANGED current
       ELSE IF IsSome(PathParent(current_file))
       THEN /\ current' = PathParent(current_file)
            /\ resolve_pc' = "walk"
            /\ UNCHANGED resolved
       ELSE /\ resolved' = None
            /\ resolve_pc' = "done"
            /\ UNCHANGED current
    /\ UNCHANGED <<current_file, import_path, dir_idx, envVars, parseVars, wsVars, collectVars>>

\* an upward walk that stays in the directory it has tested
ResolveWalk_Stays ==
    /\ resolve_pc = "walk"
    /\ IF Exists(disk, PathJoin(Unwrap(current), import_path))
       THEN /\ resolved' = Some(PathJoin(Unwrap(current), import_path))
            /\ resolve_pc' = "done"
       ELSE UNCHANGED <<resolve_pc, resolved>>
    /\ UNCHANGED <<current, current_file, import_path, dir_idx, envVars, parseVars, wsVars, collectVars>>

\* one iteration of the upward walk
ResolveWalk ==
    /\ resolve_pc = "walk"
    /\ IF Exists(disk, PathJoin(Unwrap(current), import_path))
       THEN /\ resolved' = Some(PathJoin(Unwrap(current), import_path))
            /\ resolve_pc' = "done"
            /\ UNCHANGED current
       ELSE IF PathParent(Unwrap(current)) = None \/ PathParent(Unwrap(current)) = current
       THEN /\ resolved' = None
            /\ resolve_pc' = "done"
            /\ UNCHANGED current
       ELSE /\ current' = PathParent(Unwrap(current))
            /\ UNCHANGED <<resolve_pc, resolved>>
    /\ UNCHANGED <<current_file, import_path, dir_idx, envVars, parseVars, wsVars, collectVars>>

NextResolve ==
    \/ \E dir \in ResolveDirs : add_directory(dir)
    \/ \E file \in ResolveCurrentFiles, str \in ResolveImports : ResolveCall(file, str)
    \/ ResolveAdditional
    \/ ResolveParent
    \/ ResolveWalk

SpecResolve == InitResolve /\ [][NextResolve]_vars

\* the ancestors of a directory, from the nearest up to the root
RECURSIVE Ancestors(_)
Ancestors(dir) ==
    IF Len(dir) <= 1 THEN <<>>
    ELSE <<Front(dir)>> \o Ancestors(Front(dir))

\* the candidates of the claimed order: root/import for each additional root,
\* parent/import, then ancestor/import from the nearest ancestor to the root
Candidates(dirs, file, str) ==
    [i \in 1..Len(dirs) |-> PathJoin(dirs[i], str)]
    \o (IF Len(file) <= 1 THEN <<>>
        ELSE <<PathJoin(Front(file), str)>>
             \o [i \in 1..Len(Ancestors(Front(file))) |->
                    PathJoin(Ancestors(Front(file))[i], str)])

RECURSIVE FirstExisting(_, _)
FirstExisting(fs, candidates) ==
    IF candidates = <<>> THEN None
    ELSE IF Head(candidates) \in DOMAIN fs THEN Some(Head(candidates))
    ELSE FirstExisting(fs, Tail(candidates))

\* C10: a finished resolve_import returns the first existing candidate of the
\* order: root/import for each additional root in configuration order, then
\* parent/import, then ancestor/import from the nearest ancestor up to the
\* root (x/import being the path join, in which an absolute import stands for
\* itself); the stepwise loops and the one-pass function agree on it.
C10_FirstExistingCandidate ==
    [][resolve_pc # "done" /\ resolve_pc' = "done" =>
          /\ resolved' = FirstExisting(disk, Candidates(additional_dirs, current_file, import_path))
          /\ resolved' = resolve_import(disk, additional_dirs, current_file, import_path)]_vars

\* C10 witness: the import exists under the second additional root and in the
\* file's own directory, not under the first root, and the root's copy is returned
C10_Witness ==
    /\ resolve_pc = "done"
    /\ import_path = "b"
    /\ current_file = PathOf("/w/a")
    /\ additional_dirs = <<PathOf("/inc1"), PathOf("/inc2")>>
    /\ PathOf("/inc1/b") \notin DOMAIN disk
    /\ PathOf("/inc2/b") \in DOMAIN disk
    /\ PathOf("/w/b") \in DOMAIN disk
    /\ resolved = Some(PathOf("/inc2/b"))

\* a call of resolve_import runs on its caller's thread until it returns
SpecResolveFair ==
    /\ SpecResolve
    /\ WF_vars(ResolveAdditional)
    /\ WF_vars(ResolveParent)
    /\ WF_vars(ResolveWalk)

\* C11: every call of resolve_import returns; each iteration of the upward
\* walk that does not return moves to the proper parent of the directory it
\* tested, so no ancestor is tested twice by the walk; the walk gives up only
\* in a directory that has no parent (the root); and the call returns nothing
\* exactly when none of the candidates of the search order exists.
C11_ResolveTerminates ==
    /\ (resolve_pc \in {"additional", "parent", "walk"}) ~> (resolve_pc = "done")
    /\ [][/\ resolve_pc = "walk" /\ resolve_pc' = "walk"
             => /\ current' = PathParent(Unwrap(current))
                /\ Len(Unwrap(current')) < Len(Unwrap(current))
          /\ resolve_pc = "walk" /\ resolve_pc' = "done" /\ resolved' = None
             => PathParent(Unwrap(current)) = None
          /\ resolve_pc # "done" /\ resolve_pc' = "done"
             => (resolved' = None <=>
                    \A i \in 1..Len(Candidates(additional_dirs, current_file, import_path)) :
                        ~Exists(disk, Candidates(additional_dirs, current_file, import_path)[i]))]_vars

\* C11 witness: from /w/s/a the walk tested /w/s, /w and the root, found the
\* import nowhere, and the call returned nothing
C11_Witness ==
    /\ resolve_pc = "done"
    /\ current_file = PathOf("/w/s/a")
    /\ import_path = "b"
    /\ current = Some(PathOf("/"))
    /\ resolved = None

(***************************************************************************)
(* The workspace manager under concurrent tasks.                           *)
(***************************************************************************)

UriA == "file:///w/a"

UriB == "file:///w/b"

UriC == "file:///w/c"

UriUntitled == "untitled:1"

TxtPkg == <<"package p;">>

TxtMsg == <<"message M {", "}">>

TxtBad == <<"service S {", "rpc A(B) returns )(", "}">>

\* the identities that are opened, read and closed
Uris == {UriA, UriB}

\* the open_file calls: the importing document with one text, the imported
\* one with two well-formed texts and a malformed one
OpenCalls == {<<UriA, TxtPkg>>, <<UriB, TxtPkg>>, <<UriB, TxtMsg>>, <<UriB, TxtBad>>}

\* the arguments of the import fetches: from a file and from a buffer that
\* has no path, an import that may exist and one that never does
CurrentUris == {UriA, UriUntitled}

Imports == {"b", "x"}

WsTexts == {TxtPkg, TxtMsg, TxtBad}

\* the file systems: /w/b is unreadable or holds a text
WsDisks ==
    {WithDirs([path \in {PathOf("/w/a"), PathOf("/w/b")} |->
                  IF path = PathOf("/w/b") THEN entry ELSE FileEntry(TxtPkg)]) :
        entry \in {Unreadable, FileEntry(TxtPkg), FileEntry(TxtBad)}}

\* the greatest number of import statements of the document whose imports
\* are collected
MaxImports == 2

\* the greatest number of nested calls of collect_imports_recursive_async
MaxDepth == 5

ImportLine(str) == "import \"" \o str \o "\";"

\* the texts of at most n import statements, each of one of the names
ImportTexts(names, n) ==
    {[i \in 1..Len(list) |-> ImportLine(list[i])] : list \in TextsUpTo(names, n)}

\* the texts of /w/a, /w/b and /w/c whose imports are collected
CollectTextsA == ImportTexts({"a", "b", "c"}, MaxImports)

CollectTextsB == ImportTexts({"a", "c"}, 1)

CollectTextsC == ImportTexts({"a"}, 1) \cup {TxtBad}

\* the file systems of the collection: /w/c may also be unreadable
CollectDisks ==
    {WithDirs([path \in {PathOf("/w/a"), PathOf("/w/b"), PathOf("/w/c")} |->
                  IF path = PathOf("/w/a") THEN FileEntry(text_a)
                  ELSE IF path = PathOf("/w/b") THEN FileEntry(text_b)
                  ELSE entry_c]) :
        text_a \in CollectTextsA, text_b \in CollectTextsB,
        entry_c \in {Unreadable} \cup {FileEntry(text_c) : text_c \in CollectTextsC}}

\* the texts of /w/a, /w/b and /w/c whose symbols are indexed: with and
\* without a package, with nested declarations, with an import cycle
SymbolTextsA ==
    {<<ImportLine("b"), "message A {", "}">>,
     <<ImportLine("b"), "message A {", "message N {", "}", "}">>,
     <<"package p;", ImportLine("b"), "enum E {", "V = 0;", "}">>,
     <<"package p;", ImportLine("b"), "message A {", "enum E {", "V = 0;", "}", "}">>}

SymbolTextsB ==
    {<<"package p;", ImportLine("c"), "message B {", "}">>,
     <<"package q;", ImportLine("a"), "enum F {", "W = 0;", "}">>,
     <<ImportLine("c"), "service S {", "rpc R(A) returns (B);", "}">>}

SymbolTextsC ==
    {<<"package q;", "message C {", "}">>,
     <<"package r;", "service T {", "rpc R(A) returns (B);", "}">>}

\* the file systems of the symbol index: /w/c may also be unreadable
SymbolDisks ==
    {WithDirs([path \in {PathOf("/w/a"), PathOf("/w/b"), PathOf("/w/c")} |->
                  IF path = PathOf("/w/a") THEN FileEntry(text_a)
                  ELSE IF path = PathOf("/w/b") THEN FileEntry(text_b)
                  ELSE entry_c]) :
        text_a \in SymbolTextsA, text_b \in SymbolTextsB,
        entry_c \in {Unreadable} \cup {FileEntry(text_c) : text_c \in SymbolTextsC}}

\* parse_simple on every identity and text of the specifications below
ParseTable ==
    [call \in {<<uri, text>> :
                  uri \in {UriA, UriB, UriC},
                  text \in WsTexts \cup CollectTextsA \cup CollectTextsB \cup CollectTextsC
                           \cup SymbolTextsA \cup SymbolTextsB \cup SymbolTextsC} |->
        parse_simple(call[1], call[2])]

\* ProtoParser::new() followed by parse: the cache of a new parser is empty, so
\* the text is always scanned; "error" when the temporary file cannot be written
ParseFresh(uri, text, tmp_ok) ==
    IF ~tmp_ok THEN [kind |-> "error", doc |-> None]
    ELSE Let(ParseTable[<<uri, text>>], LAMBDA doc :
             IF doc = None THEN [kind |-> "panic", doc |-> None]
             ELSE [kind |-> "ok", doc |-> doc])

Never == [kind |-> "never", text |-> <<>>, outcome |-> "", had |-> FALSE]

\* a close_file, with whether it found an entry to remove
Closed(had) == [kind |-> "closed", text |-> <<>>, outcome |-> "", had |-> had]

\* an open_file that stored its document or panicked, with its text; one that
\* the file system made fail, without
Opened(text, outcome) ==
    [kind |-> "open", text |-> IF outcome = "error" THEN <<>> ELSE text,
     outcome |-> outcome, had |-> FALSE]

Ret(op, uri, value, why) ==
    [op |-> op, uri |-> uri, value |-> value, why |-> why, overlap |-> FALSE]

Init ==
    /\ ParseInit
    /\ ResolveIdle
    /\ CollectIdle
    /\ ClientIdle
    /\ additional_dirs = <<>>
    /\ disk \in WsDisks
    /\ files = EmptyMap
    /\ task = [t \in Tasks |-> IdleTask]
    /\ ret = NoRet
    /\ last_call = [uri \in Uris |-> Never]

\* open_file up to the insert: a new parser parses the text
open_file_parse(t, uri, text) ==
    /\ task[t].pc = "idle"
    /\ \E tmp_ok \in BOOLEAN :
          \E parsed \in {ParseFresh(uri, text, tmp_ok)} :
              IF parsed.kind = "ok"
              THEN /\ task' = [task EXCEPT ![t] =
                         [pc |-> "insert", op |-> "open", uri |-> uri, text |-> text,
                          parsed |-> Unwrap(parsed.doc)]]
                   /\ UNCHANGED <<ret, last_call>>
              ELSE /\ ret' = Ret("open", uri, None, parsed.kind)
                   /\ last_call' = [last_call EXCEPT ![uri] = Opened(text, parsed.kind)]
                   /\ UNCHANGED task
    /\ UNCHANGED <<files, envVars, parseVars, resolveVars, collectVars>>

\* open_file: the insert and the return
open_file_insert(t) ==
    /\ task[t].pc = "insert"
    /\ task[t].op = "open"
    /\ files' = files_insert(files, task[t].uri, task[t].parsed)
    /\ ret' = Ret("open", task[t].uri, Some(task[t].parsed), "stored")
    /\ last_call' = [last_call EXCEPT ![task[t].uri] = Opened(task[t].text, "stored")]
    /\ task' = [task EXCEPT ![t] = IdleTask]
    /\ UNCHANGED <<envVars, parseVars, resolveVars, collectVars>>

\* get_file; the record of the return keeps what the last call on the identity
\* was and whether an open_file of the identity was under way
get_file(t, uri) ==
    /\ task[t].pc = "idle"
    /\ ret' = [Ret("get", uri, files_get(files, uri), last_call[uri].kind) EXCEPT
                  !.overlap = \E o \in Tasks : task[o].pc = "insert" /\ task[o].uri = uri]
    /\ UNCHANGED <<files, task, last_call, envVars, parseVars, resolveVars, collectVars>>

\* close_file
close_file(t, uri) ==
    /\ task[t].pc = "idle"
    /\ files' = files_remove(files, uri)
    /\ ret' = Ret("close", uri, None, "")
    /\ last_call' = [last_call EXCEPT ![uri] = Closed(uri \in DOMAIN files)]
    /\ UNCHANGED <<task, envVars, parseVars, resolveVars, collectVars>>

\* get_imported_file up to the insert of open_file: the resolution, the cache
\* lookup, the read of the file and its parse
get_imported_file_check(t, current_uri, str) ==
    /\ task[t].pc = "idle"
    /\ \E look \in {ImportLookup(files, disk, additional_dirs, current_uri, str)} :
       \E target \in {IF IsSome(look.target) THEN Unwrap(look.target) ELSE ""} :
           IF look.why # "read"
           THEN /\ ret' = Ret("fetch", target, look.cached, look.why)
                /\ UNCHANGED <<task, last_call>>
           ELSE \E tmp_ok \in BOOLEAN :
                \E parsed \in {ParseFresh(target, Unwrap(look.text), tmp_ok)} :
                    IF parsed.kind = "ok"
                    THEN /\ task' = [task EXCEPT ![t] =
                               [pc |-> "insert", op |-> "fetch", uri |-> target,
                                text |-> Unwrap(look.text), parsed |-> Unwrap(parsed.doc)]]
                         /\ UNCHANGED <<ret, last_call>>
                    ELSE /\ ret' = Ret("fetch", target, None, parsed.kind)
                         /\ last_call' = [last_call EXCEPT ![target] =
                                             Opened(Unwrap(look.text), parsed.kind)]
                         /\ UNCHANGED task
    /\ UNCHANGED <<files, envVars, parseVars, resolveVars, collectVars>>

\* get_imported_file: the insert of its open_file and the return
get_imported_file_store(t) ==
    /\ task[t].pc = "insert"
    /\ task[t].op = "fetch"
    /\ files' = files_insert(files, task[t].uri, task[t].parsed)
    /\ ret' = Ret("fetch", task[t].uri, Some(task[t].parsed), "stored")
    /\ last_call' = [last_call EXCEPT ![task[t].uri] = Opened(task[t].text, "stored")]
    /\ task' = [task EXCEPT ![t] = IdleTask]
    /\ UNCHANGED <<envVars, parseVars, resolveVars, collectVars>>

\* a cache-only fetch that loads the file it does not find in the cache
get_imported_file_cached_Loading(t, current_uri, str) ==
    /\ task[t].pc = "idle"
    /\ \E look \in {ImportLookup(files, disk, additional_dirs, current_uri, str)} :
          IF look.why = "read" /\ ParseTable[<<Unwrap(look.target), Unwrap(look.text)>>] # None
          THEN /\ files' = files_insert(files, Unwrap(look.target),
                       Unwrap(ParseTable[<<Unwrap(look.target), Unwrap(look.text)>>]))
               /\ ret' = Ret("fetch_cached", Unwrap(look.target),
                             ParseTable[<<Unwrap(look.target), Unwrap(look.text)>>], "cached")
          ELSE /\ ret' = Ret("fetch_cached", "", look.cached, look.why)
               /\ UNCHANGED files
    /\ UNCHANGED <<task, last_call, envVars, parseVars, resolveVars, collectVars>>

\* get_imported_file_cached
get_imported_file_cached(t, current_uri, str) ==
    /\ task[t].pc = "idle"
    /\ \E look \in {CachedLookup(files, disk, additional_dirs, current_uri, str)} :
          ret' = Ret("fetch_cached", IF IsSome(look.target) THEN Unwrap(look.target) ELSE "",
                     look.cached, look.why)
    /\ UNCHANGED <<files, task, last_call, envVars, parseVars, resolveVars, collectVars>>

Next ==
    \/ \E t \in Tasks, call \in OpenCalls : open_file_parse(t, call[1], call[2])
    \/ \E t \in Tasks : open_file_insert(t)
    \/ \E t \in Tasks, uri \in Uris : get_file(t, uri)
    \/ \E t \in Tasks, uri \in Uris : close_file(t, uri)
    \/ \E t \in Tasks, uri \in CurrentUris, str \in Imports : get_imported_file_check(t, uri, str)
    \/ \E t \in Tasks : get_imported_file_store(t)
    \/ \E t \in Tasks, uri \in CurrentUris, str \in Imports : get_imported_file_cached(t, uri, str)

Spec == Init /\ [][Next]_vars

\* C2: a get_file of an identity whose last open_file (none of whose temporary
\* files the file system refused) was followed by no close_file returns the
\* document parsed from the text of that open_file, and so never one parsed
\* from an earlier text.
C2_GetReturnsLatestText ==
    [][\A t \in Tasks, uri \in Uris :
          /\ get_file(t, uri)
          /\ last_call[uri].kind = "open"
          /\ last_call[uri].outcome # "error"
          => ret'.value = ParseTable[<<uri, last_call[uri].text>>]]_vars

\* C5: what get_file returns is nothing or a complete document, the parse of
\* one text under the identity asked for, also while an open_file of that
\* identity is between its parse and its insert; and it is a document when the
\* last call on the identity stored one.
C5_GetReturnsWholeDocument ==
    ret.op = "get" =>
        /\ ret.value = None \/ \E text \in WsTexts : ret.value = ParseTable[<<ret.uri, text>>]
        /\ last_call[ret.uri].kind = "open" /\ last_call[ret.uri].outcome = "stored"
              => ret.value # None

\* C5 witness: a get_file that ran while an open_file of the same identity
\* was under way returned a document
C5_Witness ==
    /\ ret.op = "get"
    /\ ret.overlap
    /\ ret.value # None
    /\ \E o \in Tasks :
          /\ task[o].pc = "insert"
          /\ task[o].uri = ret.uri
          /\ ret.value # Some(task[o].parsed)

\* C6: a get_file of an identity on which the last call to take effect was a
\* close_file returns nothing (an open_file, direct or inside
\* get_imported_file, takes effect when it stores its document).
C6_ClosedStaysAbsent ==
    [][\A t \in Tasks, uri \in Uris :
          get_file(t, uri) /\ last_call[uri].kind = "closed" => ret'.value = None]_vars

\* C6 witness: a get_file after the close_file of a cached identity returned nothing
C6_Witness ==
    /\ ret.op = "get"
    /\ ret.why = "closed"
    /\ ret.value = None
    /\ last_call[ret.uri].kind = "closed"
    /\ last_call[ret.uri].had

\* C7: get_imported_file of an import that resolves to identity T: when T is
\* cached the cached document is returned and the cache stays as it was; when
\* T is not cached and the file is readable, the text of the file is parsed
\* (unless the file system refused the temporary file) and then stored under
\* T and returned, the cache holding under T what is returned.
C7_FetchReturnsCachedOrLoads ==
    [][/\ \A t \in Tasks, uri \in CurrentUris, str \in Imports :
             LET resolved_path == manager_resolve_import(disk, additional_dirs, uri, str)
                 import_uri == path_to_url(Unwrap(resolved_path))
                 T == Unwrap(import_uri)
             IN  get_imported_file_check(t, uri, str) /\ resolved_path # None
                    /\ import_uri # None
                 => /\ T \in DOMAIN files => ret'.value = Some(files[T]) /\ files' = files
                    /\ T \notin DOMAIN files /\ disk[Unwrap(resolved_path)].kind = "file"
                       => \/ /\ task'[t].pc = "insert"
                             /\ task'[t].uri = T
                             /\ Some(task'[t].parsed) =
                                    ParseTable[<<T, disk[Unwrap(resolved_path)].text>>]
                          \/ ret'.op = "fetch" /\ ret'.why = "error"
       /\ \A t \in Tasks :
             get_imported_file_store(t)
             => /\ ret'.value = Some(task[t].parsed)
                /\ files_get(files', task[t].uri) = ret'.value]_vars

\* C8: get_imported_file of an import that cannot be resolved, or whose
\* resolved file is not cached and cannot be read, returns nothing without an
\* error or a panic, and leaves the cache, the importing document in it, and
\* the caller as they were.
C8_FetchFailsQuietly ==
    [][\A t \in Tasks, uri \in CurrentUris, str \in Imports :
          LET resolved_path == manager_resolve_import(disk, additional_dirs, uri, str)
              import_uri == path_to_url(Unwrap(resolved_path))
              unreadable == /\ resolved_path # None
                            /\ import_uri # None
                            /\ Unwrap(import_uri) \notin DOMAIN files
                            /\ disk[Unwrap(resolved_path)].kind # "file"
          IN  get_imported_file_check(t, uri, str) /\ (resolved_path = None \/ unreadable)
              => /\ ret'.op = "fetch"
                 /\ ret'.value = None
                 /\ ret'.why \in {"unresolved", "unreadable"}
                 /\ files' = files
                 /\ task' = task]_vars

\* C8 witness: the fetch of an import whose file cannot be read returned
\* nothing, and the importing document is cached
C8_Witness ==
    /\ ret.op = "fetch"
    /\ ret.why = "unreadable"
    /\ ret.value = None
    /\ disk[PathOf("/w/b")].kind = "unreadable"
    /\ UriA \in DOMAIN files
    /\ UriB \notin DOMAIN files

\* C9: get_file and get_imported_file_cached leave the cache, the file system
\* and every task as they were, whether they return a document or nothing.
C9_ReadsLeaveCacheAlone ==
    [][/\ \A t \in Tasks, uri \in Uris :
             get_file(t, uri) => files' = files /\ disk' = disk /\ task' = task
       /\ \A t \in Tasks, uri \in CurrentUris, str \in Imports :
             get_imported_file_cached(t, uri, str)
             => files' = files /\ disk' = disk /\ task' = task]_vars

\* C9 witness: a cache-only fetch of an import whose file is readable and not
\* opened returned nothing and loaded nothing
C9_Witness ==
    /\ ret.op = "fetch_cached"
    /\ ret.why = "not_cached"
    /\ ret.uri = UriB
    /\ ret.value = None
    /\ disk[PathOf("/w/b")].kind = "file"
    /\ UriB \notin DOMAIN files

(***************************************************************************)
(* collect_all_imports_async, with other tasks acting on the cache.        *)
(***************************************************************************)

\* the locals of one call of collect_imports_recursive_async: the document,
\* its url, the index of the import of the loop, where the iteration stands
\* ("fetch", "store", "visit"), what the fetch returned and the document an
\* open_file is about to insert
Frame(proto, current_uri) ==
    [proto |-> proto, current_uri |-> current_uri, idx |-> 0, phase |-> "fetch",
     fetched |-> None, pending |-> None]

\* the frame at the start of the next iteration of its loop
NextImport(frame) ==
    [frame EXCEPT !.idx = @ + 1, !.phase = "fetch", !.fetched = None, !.pending = None]

InitCollect ==
    /\ ParseInit
    /\ ResolveIdle
    /\ CollectIdle
    /\ ClientIdle
    /\ additional_dirs = <<>>
    /\ disk \in CollectDisks
    /\ \E opened \in BOOLEAN :
          files = IF opened
                  THEN MapPut(EmptyMap, UriA,
                              Unwrap(ParseTable[<<UriA, disk[PathOf("/w/a")].text>>]))
                  ELSE EmptyMap
    /\ task = [t \in Tasks |-> IdleTask]
    /\ ret = NoRet
    /\ last_call = EmptyMap

\* the body of collect_all_imports_async up to the call of
\* collect_imports_recursive_async
CollectEnter(current_uri) ==
    /\ collect_pc \in {"idle", "done", "panicked"}
    /\ collect_pc' = "running"
    /\ all_imports' = <<>>
    /\ visited' = {}
    /\ interference' = FALSE
    /\ stack' = IF IsSome(files_get(files, current_uri))
                THEN <<Frame(Unwrap(files_get(files, current_uri)), current_uri)>>
                ELSE <<>>

\* collect_all_imports_async called on its own
collect_all_imports_async(current_uri) ==
    /\ symbols_pc = "idle"
    /\ CollectEnter(current_uri)
    /\ UNCHANGED <<symbolVars, envVars, parseVars, resolveVars, wsVars>>

\* get_imported_file(current_uri, import.path) up to the insert of its
\* open_file; when it returns nothing, the get_imported_file_cached after it
collect_fetch ==
    /\ collect_pc = "running"
    /\ Len(stack) > 0
    /\ Last(stack).phase = "fetch"
    /\ Last(stack).idx < Len(Last(stack).proto.imports)
    /\ \E top \in {Last(stack)} :
       \E str \in {top.proto.imports[top.idx + 1].path} :
       \E look \in {ImportLookup(files, disk, additional_dirs, top.current_uri, str)} :
           IF look.why = "read"
           THEN \E tmp_ok \in BOOLEAN :
                \E parsed \in {ParseFresh(Unwrap(look.target), Unwrap(look.text), tmp_ok)} :
                    IF parsed.kind = "ok"
                    THEN /\ stack' = ReplaceLast(stack,
                                        [top EXCEPT !.phase = "store",
                                                    !.pending = parsed.doc])
                         /\ UNCHANGED <<collect_pc, interference>>
                    ELSE IF parsed.kind = "panic"
                    THEN /\ collect_pc' = "panicked"
                         /\ stack' = <<>>
                         /\ UNCHANGED interference
                    ELSE /\ stack' = ReplaceLast(stack,
                                        [top EXCEPT !.phase = "visit",
                                                    !.fetched = CachedLookup(files, disk,
                                                        additional_dirs, top.current_uri,
                                                        str).cached])
                         /\ interference' = TRUE
                         /\ UNCHANGED collect_pc
           ELSE /\ stack' = ReplaceLast(stack,
                               [top EXCEPT !.phase = "visit",
                                           !.fetched =
                                               IF IsSome(look.cached) THEN look.cached
                                               ELSE CachedLookup(files, disk, additional_dirs,
                                                                 top.current_uri, str).cached])
                /\ UNCHANGED <<collect_pc, interference>>
    /\ UNCHANGED <<symbolVars, all_imports, visited, envVars, parseVars, resolveVars, wsVars>>

\* the insert of the open_file inside get_imported_file, and its return
collect_store ==
    /\ collect_pc = "running"
    /\ Len(stack) > 0
    /\ Last(stack).phase = "store"
    /\ \E doc \in {Unwrap(Last(stack).pending)} :
          /\ files' = files_insert(files, doc.uri, doc)
          /\ stack' = ReplaceLast(stack, [Last(stack) EXCEPT !.phase = "visit",
                                                             !.fetched = Some(doc),
                                                             !.pending = None])
    /\ UNCHANGED <<symbolVars, collect_pc, all_imports, visited, interference, task, ret, last_call,
                   envVars, parseVars, resolveVars>>

\* a variant that takes the caller's remaining imports before the nested call
NestedCall_Deferred(frames, top, frame) ==
    <<frame>> \o ReplaceLast(frames, NextImport(top))

\* the nested call of collect_imports_recursive_async is awaited inside the
\* loop: its frame runs before the caller's next iteration
NestedCall(frames, top, frame) ==
    Append(ReplaceLast(frames, NextImport(top)), frame)

\* the body of the loop after the fetch: the visited check, the push and the
\* nested call
collect_visit ==
    /\ collect_pc = "running"
    /\ Len(stack) > 0
    /\ Last(stack).phase = "visit"
    /\ \E top \in {Last(stack)} :
          IF top.fetched = None
          THEN /\ stack' = ReplaceLast(stack, NextImport(top))
               /\ UNCHANGED <<collect_pc, all_imports, visited>>
          ELSE \E imported \in {Unwrap(top.fetched)} :
                  IF visited_contains(visited, imported.uri)
                  THEN /\ stack' = ReplaceLast(stack, NextImport(top))
                       /\ UNCHANGED <<collect_pc, all_imports, visited>>
                  ELSE /\ visited' = visited_insert(visited, imported.uri)
                       /\ all_imports' = Append(all_imports, imported)
                       /\ IF url_parse(imported.uri) = None
                          THEN /\ stack' = ReplaceLast(stack, NextImport(top))
                               /\ UNCHANGED collect_pc
                          ELSE IF Len(stack) < MaxDepth
                          THEN /\ stack' = NestedCall(stack, top,
                                                      Frame(imported,
                                                            Unwrap(url_parse(imported.uri))))
                               /\ UNCHANGED collect_pc
                          ELSE /\ collect_pc' = "overflow"
                               /\ UNCHANGED stack
    /\ UNCHANGED <<symbolVars, interference, envVars, parseVars, resolveVars, wsVars>>

\* the end of a loop: the nested call returns to its caller, the outermost
\* one to collect_all_imports_async, which returns all_imports
collect_return ==
    /\ collect_pc = "running"
    /\ \/ Len(stack) = 0
       \/ /\ Len(stack) > 0
          /\ Last(stack).phase = "fetch"
          /\ Last(stack).idx = Len(Last(stack).proto.imports)
    /\ stack' = IF Len(stack) = 0 THEN stack ELSE Front(stack)
    /\ collect_pc' = IF Len(stack) <= 1 THEN "done" ELSE "running"
    /\ UNCHANGED <<symbolVars, all_imports, visited, interference, envVars, parseVars, resolveVars, wsVars>>

\* another task closes a file while the collection runs
other_close_file(uri) ==
    /\ collect_pc = "running"
    /\ files' = files_remove(files, uri)
    /\ interference' = TRUE
    /\ UNCHANGED <<symbolVars, collect_pc, stack, all_imports, visited, task, ret, last_call,
                   envVars, parseVars, resolveVars>>

\* another task opens a file with a text of its own while the collection runs
other_open_file(uri, text) ==
    /\ collect_pc = "running"
    /\ files' = files_insert(files, uri, Unwrap(ParseTable[<<uri, text>>]))
    /\ interference' = TRUE
    /\ UNCHANGED <<symbolVars, collect_pc, stack, all_imports, visited, task, ret, last_call,
                   envVars, parseVars, resolveVars>>

CollectStep == collect_fetch \/ collect_store \/ collect_visit \/ collect_return

NextCollect ==
    \/ collect_all_imports_async(UriA)
    \/ collect_fetch
    \/ collect_store
    \/ collect_visit
    \/ collect_return
    \/ \E uri \in {UriA, UriB, UriC} : other_close_file(uri)
    \/ other_open_file(UriC, TxtPkg)

\* the executor keeps polling the task of the collection, which never waits
\* for another task
SpecCollect == InitCollect /\ [][NextCollect]_vars /\ WF_vars(CollectStep)

\* the number of entries of the result that have identity uri
Entries(uri) == Cardinality({i \in 1..Len(all_imports) : all_imports[i].uri = uri})

\* the text has an import statement of the name
TextImports(text, str) == \E i \in 1..Len(text) : text[i] = ImportLine(str)

\* the document has an import statement of the name
ImportsName(doc, str) == \E i \in 1..Len(doc.imports) : doc.imports[i].path = str

\* C3: a running collect_all_imports_async ends (it returns, or a panic of
\* the parser unwinds it), whatever the import graph, cycles and self-imports
\* included; and when /w/a imports /w/b, /w/b imports /w/a, and nothing
\* disturbed the call, the result it returns has exactly one entry for /w/b.
C3_CollectTerminates ==
    /\ (collect_pc = "running") ~> (collect_pc \in {"done", "panicked"})
    /\ [](/\ collect_pc = "done"
          /\ ~interference
          /\ UriA \in DOMAIN files
          /\ ImportsName(files[UriA], "b")
          /\ TextImports(disk[PathOf("/w/b")].text, "a")
          => Entries(UriB) = 1)

\* C3 witness: /w/a imports /w/b and itself, /w/b imports /w/a, and the
\* collection returned /w/b and /w/a once each
C3_Witness ==
    /\ collect_pc = "done"
    /\ ~interference
    /\ UriA \in DOMAIN files
    /\ ImportsName(files[UriA], "b")
    /\ ImportsName(files[UriA], "a")
    /\ TextImports(disk[PathOf("/w/b")].text, "a")
    /\ Len(all_imports) = 2
    /\ all_imports[1].uri = UriB
    /\ all_imports[2].uri = UriA

\* C4: no identity has two entries in all_imports, at any point of the
\* collection and in what it returns.
C4_NoIdentityTwice ==
    \A i, j \in 1..Len(all_imports) : all_imports[i].uri = all_imports[j].uri => i = j

\* C4 witness: /w/a imports /w/b and /w/c, /w/b imports /w/c too; the
\* collection returned each of the two once
C4_Witness ==
    /\ collect_pc = "done"
    /\ UriA \in DOMAIN files
    /\ Len(files[UriA].imports) = 2
    /\ files[UriA].imports[1].path = "b"
    /\ files[UriA].imports[2].path = "c"
    /\ UriB \in DOMAIN files
    /\ ImportsName(files[UriB], "c")
    /\ Len(all_imports) = 2
    /\ Entries(UriB) = 1
    /\ Entries(UriC) = 1

\* the document that an import statement of the document at current_uri
\* names: the cached one, or else the one the file system holds
ImportedDoc(current_uri, str) ==
    Let(ImportLookup(files, disk, additional_dirs, current_uri, str), LAMBDA look :
        IF look.why = "cached" THEN look.cached
        ELSE IF look.why = "read"
        THEN ParseTable[<<Unwrap(look.target), Unwrap(look.text)>>]
        ELSE None)

\* depth-first pre-order from the import idx of a document on: each imported
\* document that was not seen is listed, then what its own imports reach, then
\* the next import is taken
RECURSIVE PreOrder(_, _, _)
PreOrder(proto, idx, walk) ==
    IF idx > Len(proto.imports) THEN walk
    ELSE Let(ImportedDoc(proto.uri, proto.imports[idx].path), LAMBDA imported :
             IF imported = None THEN PreOrder(proto, idx + 1, walk)
             ELSE IF Unwrap(imported).uri \in walk.seen THEN PreOrder(proto, idx + 1, walk)
             ELSE PreOrder(proto, idx + 1,
                           PreOrder(Unwrap(imported), 1,
                                    [seen |-> walk.seen \cup {Unwrap(imported).uri},
                                     order |-> Append(walk.order, Unwrap(imported))])))

\* C21: the result of an undisturbed collect_all_imports_async lists the
\* documents in depth-first pre-order, imports taken in declaration order
C21_DepthFirstPreOrder ==
    /\ collect_pc = "done"
    /\ ~interference
    /\ UriA \in DOMAIN files
    => all_imports = PreOrder(files[UriA], 1, [seen |-> {}, order |-> <<>>]).order

\* C21 witness: /w/a imports /w/b then /w/c, /w/b imports /w/a: the result is
\* /w/b, then /w/a reached through /w/b, then /w/c
C21_Witness ==
    /\ collect_pc = "done"
    /\ ~interference
    /\ UriA \in DOMAIN files
    /\ Len(all_imports) = 3
    /\ all_imports[1].uri = UriB
    /\ all_imports[2].uri = UriA
    /\ all_imports[3].uri = UriC

(***************************************************************************)
(* The symbol index: get_symbols_by_package.                               *)
(***************************************************************************)

SymbolKind == {"Message", "Enum", "EnumValue", "Service", "Method"}

PackageSymbol(name, full_name, kind, package) ==
    [name |-> name, full_name |-> full_name, kind |-> kind, package |-> package]

\* the loop over proto.messages
RECURSIVE MessageSymbols(_, _)
MessageSymbols(messages, package_name) ==
    IF Len(messages) = 0 THEN <<>>
    ELSE <<PackageSymbol(Head(messages).name, Head(messages).full_name, "Message",
                         package_name)>>
         \o MessageSymbols(Tail(messages), package_name)

\* the loop over the values of one enum, or over the methods of one service
RECURSIVE MemberSymbols(_, _, _, _)
MemberSymbols(members, owner_full_name, kind, package_name) ==
    IF Len(members) = 0 THEN <<>>
    ELSE <<PackageSymbol(Head(members).name, owner_full_name \o "." \o Head(members).name,
                         kind, package_name)>>
         \o MemberSymbols(Tail(members), owner_full_name, kind, package_name)

\* the loop over proto.enums: each enum, then its values
RECURSIVE EnumSymbols(_, _)
EnumSymbols(enums, package_name) ==
    IF Len(enums) = 0 THEN <<>>
    ELSE <<PackageSymbol(Head(enums).name, Head(enums).full_name, "Enum", package_name)>>
         \o MemberSymbols(Head(enums).values, Head(enums).full_name, "EnumValue",
                          package_name)
         \o EnumSymbols(Tail(enums), package_name)

\* the loop over proto.services: each service, then its methods
RECURSIVE ServiceSymbols(_, _)
ServiceSymbols(services, package_name) ==
    IF Len(services) = 0 THEN <<>>
    ELSE <<PackageSymbol(Head(services).name, Head(services).full_name, "Service",
                         package_name)>>
         \o MemberSymbols(Head(services).methods, Head(services).full_name, "Method",
                          package_name)
         \o ServiceSymbols(Tail(services), package_name)

\* proto.package.clone().unwrap_or_else(|| "default".to_string())
PackageName(proto) == IF IsSome(proto.package) THEN Unwrap(proto.package) ELSE "default"

\* add_symbols_from_proto: the map after the pushes into the entry of the
\* document's package name
add_symbols_from_proto(proto, by_package) ==
    Let(PackageName(proto), LAMBDA package_name :
        MapPut(by_package, package_name,
               (IF package_name \in DOMAIN by_package THEN by_package[package_name] ELSE <<>>)
               \o MessageSymbols(proto.messages, package_name)
               \o EnumSymbols(proto.enums, package_name)
               \o ServiceSymbols(proto.services, package_name)))

\* the loop of get_symbols_by_package over all_imports
RECURSIVE AddImportedSymbols(_, _)
AddImportedSymbols(imports, by_package) ==
    IF Len(imports) = 0 THEN by_package
    ELSE AddImportedSymbols(Tail(imports), add_symbols_from_proto(Head(imports), by_package))

\* get_symbols_by_package up to the await of collect_all_imports_async
get_symbols_by_package(current_uri) ==
    /\ symbols_pc = "idle"
    /\ CollectEnter(current_uri)
    /\ symbols_proto' = files_get(files, current_uri)
    /\ symbols_by_package' = IF IsSome(files_get(files, current_uri))
                             THEN add_symbols_from_proto(Unwrap(files_get(files, current_uri)),
                                                         EmptyMap)
                             ELSE EmptyMap
    /\ symbols_pc' = "collecting"
    /\ UNCHANGED <<envVars, parseVars, resolveVars, wsVars>>

\* get_symbols_by_package after collect_all_imports_async returned
get_symbols_by_package_return ==
    /\ symbols_pc = "collecting"
    /\ collect_pc = "done"
    /\ symbols_by_package' = AddImportedSymbols(all_imports, symbols_by_package)
    /\ symbols_pc' = "done"
    /\ UNCHANGED <<symbols_proto, collect_pc, stack, all_imports, visited, interference,
                   envVars, parseVars, resolveVars, wsVars>>

InitSymbols ==
    /\ ParseInit
    /\ ResolveIdle
    /\ CollectIdle
    /\ ClientIdle
    /\ additional_dirs = <<>>
    /\ disk \in SymbolDisks
    /\ \E opened \in BOOLEAN :
          files = IF opened
                  THEN MapPut(EmptyMap, UriA,
                              Unwrap(ParseTable[<<UriA, disk[PathOf("/w/a")].text>>]))
                  ELSE EmptyMap
    /\ task = [t \in Tasks |-> IdleTask]
    /\ ret = NoRet
    /\ last_call = EmptyMap

NextSymbols ==
    \/ get_symbols_by_package(UriA)
    \/ collect_fetch
    \/ collect_store
    \/ collect_visit
    \/ collect_return
    \/ get_symbols_by_package_return

SpecSymbols == InitSymbols /\ [][NextSymbols]_vars

\* the messages of a list with the messages nested in them, at any depth
RECURSIVE AllMessages(_)
AllMessages(messages) ==
    IF Len(messages) = 0 THEN <<>>
    ELSE <<Head(messages)>> \o AllMessages(Head(messages).nested_messages)
         \o AllMessages(Tail(messages))

RECURSIVE NestedEnums(_)
NestedEnums(messages) ==
    IF Len(messages) = 0 THEN <<>>
    ELSE Head(messages).nested_enums \o NestedEnums(Tail(messages))

\* the enums of a document: the top-level ones and those of its messages
AllEnums(proto) == proto.enums \o NestedEnums(AllMessages(proto.messages))

SeqRange(seq) == {seq[i] : i \in 1..Len(seq)}

\* the name and kind of every message, enum, enum value, service and method
\* that a document declares
DeclaredSymbols(proto) ==
    {<<m.name, "Message">> : m \in SeqRange(AllMessages(proto.messages))}
    \cup {<<e.name, "Enum">> : e \in SeqRange(AllEnums(proto))}
    \cup UNION {{<<v.name, "EnumValue">> : v \in SeqRange(e.values)} :
                   e \in SeqRange(AllEnums(proto))}
    \cup {<<svc.name, "Service">> : svc \in SeqRange(proto.services)}
    \cup UNION {{<<md.name, "Method">> : md \in SeqRange(svc.methods)} :
                   svc \in SeqRange(proto.services)}

\* the documents of the index: the one of the identity, when it is open, and
\* those of the collected closure
IndexedDocs ==
    (IF IsSome(symbols_proto) THEN {Unwrap(symbols_proto)} ELSE {}) \cup SeqRange(all_imports)

\* the name and kind of the symbols of one bucket of the returned map
BucketSymbols(package_name) ==
    IF package_name \in DOMAIN symbols_by_package
    THEN {<<sym.name, sym.kind>> : sym \in SeqRange(symbols_by_package[package_name])}
    ELSE {}

\* the symbols that the documents of one bucket declare
DeclaredIn(package_name) ==
    UNION {DeclaredSymbols(proto) : proto \in {d \in IndexedDocs : PackageName(d) = package_name}}

\* C20: when symbol_index returns, every message, enum, enum value, service
\* and method of the document and of each collected import is in the bucket of
\* its document's package, "default" without one, and every symbol of a bucket
\* is declared by a document of that bucket
C20_SymbolsInPackageBuckets ==
    symbols_pc = "done" =>
        /\ \A proto \in IndexedDocs :
              DeclaredSymbols(proto) \subseteq BucketSymbols(PackageName(proto))
        /\ \A package_name \in DOMAIN symbols_by_package :
              /\ BucketSymbols(package_name) \subseteq DeclaredIn(package_name)
              /\ \A sym \in SeqRange(symbols_by_package[package_name]) :
                    sym.package = package_name

(***************************************************************************)
(* Handles.  The cache stores Arc<ParsedProto>: get_file clones the Arc,  *)
(* open_file stores a new allocation, close_file drops the cache's Arc.    *)
(* An allocation lives as long as the cache or a handle points to it.      *)
(***************************************************************************)

\* the greatest number of handles a client keeps
MaxHandles == 2

HandleUris == {UriA, UriB}

HandleTexts == {TxtPkg, TxtMsg}

\* the addresses an allocation can get: one more than can be live, since
\* Arc::new runs before the insert drops the Arc it replaces
Addresses == 1..(Cardinality(HandleUris) + MaxHandles + 1)

\* the allocations that the cache or a handle points to
Live(stored, handles) ==
    {stored[uri] : uri \in DOMAIN stored} \cup {handles[i].arc : i \in 1..Len(handles)}

\* a store that writes the new document into the allocation the entry has
ArcInsert_InPlace(heap, stored, uri, parsed, address) ==
    IF uri \in DOMAIN stored
    THEN [arcs |-> [heap EXCEPT ![stored[uri]] = parsed], entries |-> stored]
    ELSE [arcs |-> MapPut(heap, address, parsed), entries |-> MapPut(stored, uri, address)]

\* Arc::new(parsed) at a free address, then DashMap::insert of the new Arc
ArcInsert(heap, stored, uri, parsed, address) ==
    [arcs |-> MapPut(heap, address, parsed), entries |-> MapPut(stored, uri, address)]

\* the allocations left after the Arcs that nothing points to are freed
Collected(heap, stored, handles) ==
    [address \in (DOMAIN heap) \cap Live(stored, handles) |-> heap[address]]

\* open_file with a text that parses; the Arc it returns is dropped
handle_open_file(uri, text) ==
    /\ \E address \in Addresses \ DOMAIN arcs :
       \E after \in {ArcInsert(arcs, entries, uri,
                               Unwrap(ParseFresh(uri, text, TRUE).doc), address)} :
           /\ entries' = after.entries
           /\ arcs' = Collected(after.arcs, after.entries, held)
    /\ files' = files_insert(files, uri, Unwrap(ParseFresh(uri, text, TRUE).doc))
    /\ UNCHANGED <<held, serverVars, disk, additional_dirs, task, ret, last_call,
                   parseVars, resolveVars, collectVars>>

\* get_file by a client that keeps what it returns
handle_get_file(uri) ==
    /\ Len(held) < MaxHandles
    /\ held' = IF uri \in DOMAIN entries
               THEN Append(held, [uri |-> uri, arc |-> entries[uri],
                                  seen |-> arcs[entries[uri]]])
               ELSE held
    /\ UNCHANGED <<arcs, entries, serverVars, disk, additional_dirs, wsVars,
                   parseVars, resolveVars, collectVars>>

\* close_file
handle_close_file(uri) ==
    /\ entries' = files_remove(entries, uri)
    /\ arcs' = Collected(arcs, files_remove(entries, uri), held)
    /\ files' = files_remove(files, uri)
    /\ UNCHANGED <<held, serverVars, disk, additional_dirs, task, ret, last_call,
                   parseVars, resolveVars, collectVars>>

\* the client drops its oldest handle
handle_drop ==
    /\ Len(held) > 0
    /\ held' = Tail(held)
    /\ arcs' = Collected(arcs, entries, Tail(held))
    /\ UNCHANGED <<entries, serverVars, disk, additional_dirs, wsVars,
                   parseVars, resolveVars, collectVars>>

NextHandle ==
    \/ \E uri \in HandleUris, text \in HandleTexts : handle_open_file(uri, text)
    \/ \E uri \in HandleUris : handle_get_file(uri)
    \/ \E uri \in HandleUris : handle_close_file(uri)
    \/ handle_drop

SpecHandle == InitParse /\ [][NextHandle]_vars

\* C22: a handle shows the document as it was when the handle was obtained,
\* whatever open_file and close_file did to its identity since; and a get_file
\* hands out the document the cache has now, or nothing when it has none
C22_HandleNeverChanges ==
    /\ [](\A i \in 1..Len(held) :
             /\ held[i].arc \in DOMAIN arcs
             /\ arcs[held[i].arc] = held[i].seen)
    /\ [][\A uri \in HandleUris :
             handle_get_file(uri) =>
                 IF uri \in DOMAIN files
                 THEN held' = Append(held, [uri |-> uri, arc |-> entries[uri],
                                            seen |-> files[uri]])
                 ELSE held' = held]_vars

\* C22 witness: a handle of /w/a obtained before an open_file with another
\* text and a close_file of /w/a, and a later handle of the document opened
\* after that
C22_Witness ==
    /\ Len(held) = 2
    /\ held[1].uri = UriA
    /\ held[2].uri = UriA
    /\ held[1].seen # held[2].seen
    /\ UriA \notin DOMAIN files

(***************************************************************************)
(* The methods of a service, read off the rpc lines of the text.           *)
(***************************************************************************)

\* the lines `rpc ...` of a text, in order
RpcLines(content) == SelectSeq(content, LAMBDA line : StartsWith(Trim(line), "rpc "))

\* Name of `rpc Name(Input) returns (Output);`
RpcName(line) == Trim(Substr(Trim(line), 4, Find(Trim(line), "(")))

\* the words between the parentheses of the input (which = 1) or of the
\* output (which = 2)
RpcWords(line, which) ==
    Let(IF which = 1 THEN Trim(line)
        ELSE SubstrFrom(Trim(line), Find(Trim(line), "returns") + 7), LAMBDA part :
        SplitWhitespace(Substr(part, Find(part, "(") + 1, Find(part, ")"))))

\* whether `stream` stands before the type
RpcStream(line, which) == Len(RpcWords(line, which)) = 2 /\ RpcWords(line, which)[1] = "stream"

\* the type as written
RpcType(line, which) == Last(RpcWords(line, which))

\* the methods of the only service of a returned document of RpcTexts
ReturnedMethods ==
    IF Len(ReturnedDoc.services) = 1 THEN ReturnedDoc.services[1].methods ELSE <<>>

\* C23: every line `rpc Name(Input) returns (Output);` of a service block
\* gives one method of the service, in the order of the lines, named Name
C23_RpcLineIsOneMethod ==
    ReturnedOk /\ parse_content \in RpcTexts =>
        /\ Len(ReturnedDoc.services) = 1
        /\ Len(ReturnedMethods) = Len(RpcLines(parse_content))
        /\ \A i \in 1..Len(ReturnedMethods) :
              ReturnedMethods[i].name = RpcName(RpcLines(parse_content)[i])

\* C24: client_streaming says whether `stream` stands before the input type,
\* server_streaming whether it stands before the output type, and neither type
\* is the word stream
C24_StreamingFlags ==
    ReturnedOk /\ parse_content \in RpcTexts =>
        \A i \in 1..Len(ReturnedMethods) :
            /\ i <= Len(RpcLines(parse_content))
            /\ ReturnedMethods[i].client_streaming = RpcStream(RpcLines(parse_content)[i], 1)
            /\ ReturnedMethods[i].server_streaming = RpcStream(RpcLines(parse_content)[i], 2)
            /\ ReturnedMethods[i].input_type # "stream"
            /\ ReturnedMethods[i].output_type # "stream"

\* C25: in a document with a package the input and output type of a method are
\* the qualified names with a leading dot: `.test.GetUserRequest` and
\* `.test.GetUserResponse` for GetUser of package test
C25_QualifiedMethodTypes ==
    ReturnedOk /\ parse_content \in RpcTexts /\ IsSome(ReturnedDoc.package) =>
        \A i \in 1..Len(ReturnedMethods) :
            /\ i <= Len(RpcLines(parse_content))
            /\ ReturnedMethods[i].input_type =
                   "." \o Unwrap(ReturnedDoc.package) \o "."
                       \o RpcType(RpcLines(parse_content)[i], 1)
            /\ ReturnedMethods[i].output_type =
                   "." \o Unwrap(ReturnedDoc.package) \o "."
                       \o RpcType(RpcLines(parse_content)[i], 2)

(***************************************************************************)
(* The language server: the handlers of the document notifications.  The   *)
(* handlers of several notifications run interleaved; one runs without     *)
(* interruption between two of its awaits.                                 *)
(***************************************************************************)

ServerUris == {UriA, UriB}

\* the content_changes of a change notification
ServerChanges == {<<>>} \cup {<<text>> : text \in WsTexts} \cup {<<TxtPkg, TxtMsg>>}

\* did_open and did_change from the insert into document_contents up to the
\* await inside open_file: the text is stored, a new parser parses it
NotifyText(t, op, uri, text) ==
    /\ task[t].pc = "idle"
    /\ document_contents' = MapPut(document_contents, uri, text)
    /\ closed_docs' = closed_docs \ {uri}
    /\ \E tmp_ok \in BOOLEAN :
       \E parsed \in {ParseFresh(uri, text, tmp_ok)} :
           IF parsed.kind = "ok"
           THEN /\ task' = [task EXCEPT ![t] =
                      [pc |-> "insert", op |-> op, uri |-> uri, text |-> text,
                       parsed |-> Unwrap(parsed.doc)]]
                /\ UNCHANGED failed_docs
           ELSE /\ failed_docs' = failed_docs \cup {uri}
                /\ UNCHANGED task
    /\ UNCHANGED <<files, ret, last_call, disk, additional_dirs, handleVars,
                   parseVars, resolveVars, collectVars>>

did_open(t, uri, text) == NotifyText(t, "did_open", uri, text)

\* did_change takes the first of the content changes; without one it does
\* nothing
did_change(t, uri, content_changes) ==
    IF Len(content_changes) = 0
    THEN task[t].pc = "idle" /\ UNCHANGED vars
    ELSE NotifyText(t, "did_change", uri, content_changes[1])

\* the rest of open_file inside did_open and did_change: the insert into the
\* cache; the handler then validates and publishes diagnostics
notify_insert(t) ==
    /\ task[t].pc = "insert"
    /\ task[t].op \in {"did_open", "did_change"}
    /\ files' = files_insert(files, task[t].uri, task[t].parsed)
    /\ task' = [task EXCEPT ![t] = IdleTask]
    /\ UNCHANGED <<ret, last_call, disk, additional_dirs, handleVars, serverVars,
                   parseVars, resolveVars, collectVars>>

\* did_close: it has no await
did_close(t, uri) ==
    /\ task[t].pc = "idle"
    /\ document_contents' = files_remove(document_contents, uri)
    /\ files' = files_remove(files, uri)
    /\ closed_docs' = closed_docs \cup {uri}
    /\ UNCHANGED <<failed_docs, task, ret, last_call, disk, additional_dirs, handleVars,
                   parseVars, resolveVars, collectVars>>

NextServer ==
    \/ \E t \in Tasks, uri \in ServerUris, text \in WsTexts : did_open(t, uri, text)
    \/ \E t \in Tasks, uri \in ServerUris, content_changes \in ServerChanges :
          did_change(t, uri, content_changes)
    \/ \E t \in Tasks : notify_insert(t)
    \/ \E t \in Tasks, uri \in ServerUris : did_close(t, uri)

SpecServer == InitParse /\ [][NextServer]_vars

\* no handler is between its parse and its insert
HandlersFinished == \A t \in Tasks : task[t].pc = "idle"

\* C26: once the handlers have finished, the cached document of an identity
\* that has a stored text (and none of whose open_file calls failed) is the
\* parse of that text
C26_CacheFollowsContent ==
    HandlersFinished =>
        \A uri \in (DOMAIN document_contents) \ failed_docs :
            /\ uri \in DOMAIN files
            /\ Some(files[uri]) = ParseTable[<<uri, document_contents[uri]>>]

\* C27: an identity that was closed, with no open or change notification
\* since and none from before still under way, has no cached document and no
\* stored text
C27_ClosedStaysClosed ==
    \A uri \in closed_docs :
        (\A t \in Tasks : task[t].pc = "insert" => task[t].uri # uri)
        => uri \notin DOMAIN files /\ uri \notin DOMAIN document_contents

(***************************************************************************)
(* The closing brace and the service line, one scanned line at a time.     *)
(***************************************************************************)

\* after is before with one element appended
Appended(before, after) ==
    Len(after) = Len(before) + 1 /\ SubSeq(after, 1, Len(before)) = before

\* the step scans a line that, outside a block comment, is the given text
ScansLine(text) ==
    /\ ParseScanLine
    /\ Trim(parse_content[parse_line_idx + 1]) = text
    /\ ~parse_scan.in_block_comment

\* the definition closed from a frame: its name, and what was collected in it
ClosedFrom(elem, frame, parts) ==
    /\ elem.name = frame.name
    /\ elem.line = frame.line
    /\ \A part \in parts : elem[part] = frame[part]

MessageParts == {"fields", "nested_messages", "nested_enums"}

\* the definition is appended to the list `part` of the innermost remaining
\* message frame, or to the top-level list `top` when no frame remains
AttachedTo(before, after, part, top, frame, parts) ==
    IF Len(after.message_stack) > 0
    THEN /\ after[top] = before[top]
         /\ Front(after.message_stack)
               = SubSeq(before.message_stack, 1, Len(after.message_stack) - 1)
         /\ Appended(before.message_stack[Len(after.message_stack)][part],
                     Last(after.message_stack)[part])
         /\ ClosedFrom(Last(Last(after.message_stack)[part]), frame, parts)
         /\ \A other \in MessageParts \ {part} :
               Last(after.message_stack)[other]
                  = before.message_stack[Len(after.message_stack)][other]
    ELSE /\ Appended(before[top], after[top])
         /\ ClosedFrom(Last(after[top]), frame, parts)

\* C28: a bare `}` line (outside a block comment) closes the innermost enum
\* frame when one is open, else the innermost message frame; the closed
\* definition carries what its frame collected and goes to the innermost
\* message frame that remains, or to the top-level list; with no frame open
\* the scanner state stays as it is.
C28_BraceClosesOneFrame ==
    [][ScansLine("}") =>
          IF Len(parse_scan.enum_stack) > 0
          THEN /\ parse_scan'.enum_stack = Front(parse_scan.enum_stack)
               /\ Len(parse_scan'.message_stack) = Len(parse_scan.message_stack)
               /\ parse_scan'.messages = parse_scan.messages
               /\ AttachedTo(parse_scan, parse_scan', "nested_enums", "enums",
                             Last(parse_scan.enum_stack), {"values"})
          ELSE IF Len(parse_scan.message_stack) > 0
          THEN /\ parse_scan'.enum_stack = parse_scan.enum_stack
               /\ Len(parse_scan'.message_stack) = Len(parse_scan.message_stack) - 1
               /\ parse_scan'.enums = parse_scan.enums
               /\ AttachedTo(parse_scan, parse_scan', "nested_messages", "messages",
                             Last(parse_scan.message_stack), MessageParts)
          ELSE parse_scan' = [parse_scan EXCEPT !.current_line = @ + 1]]_vars

\* C28 witness: the scan of `}` closed an enum that held a value, with a
\* message frame open around it: the frame that remains holds the enum
C28_Witness ==
    /\ parse_pc = "scanning"
    /\ parse_line_idx > 0
    /\ parse_content[parse_line_idx] = "}"
    /\ Len(parse_scan.enum_stack) = 0
    /\ Len(parse_scan.message_stack) = 1
    /\ Len(Last(parse_scan.message_stack).nested_enums) = 1
    /\ Len(Last(parse_scan.message_stack).nested_enums[1].values) = 1

\* C29: the scan of a line `service Name ...` (outside a block comment, the
\* scan of its block not unwound) leaves the message stack empty; every frame
\* that was open is a message of the document's top-level list, innermost
\* first, with what the frame collected and with the line before the service
\* line as its end line; the service is appended to the top-level services.
C29_ServiceFlushesMessages ==
    [][/\ ParseScanLine
       /\ StartsWith(Trim(parse_content[parse_line_idx + 1]), "service ")
       /\ ~parse_scan.in_block_comment
       /\ parse_pc' = "scanning"
       => /\ parse_scan'.message_stack = <<>>
          /\ Len(parse_scan'.messages)
                = Len(parse_scan.messages) + Len(parse_scan.message_stack)
          /\ SubSeq(parse_scan'.messages, 1, Len(parse_scan.messages)) = parse_scan.messages
          /\ \A k \in 1..Len(parse_scan.message_stack) :
                /\ ClosedFrom(parse_scan'.messages[Len(parse_scan.messages) + k],
                              parse_scan.message_stack[Len(parse_scan.message_stack) - k + 1],
                              MessageParts)
                /\ parse_scan'.messages[Len(parse_scan.messages) + k].end_line
                      = parse_line_idx - 1
          /\ Appended(parse_scan.services, parse_scan'.services)
          /\ Last(parse_scan'.services).name
                = SplitWhitespace(Trim(parse_content[parse_line_idx + 1]))[2]
          /\ Last(parse_scan'.services).line = parse_line_idx]_vars

\* C29 witness: a service line scanned with a message open that held a field:
\* the message is in the document with the field, ended on the line before
C29_Witness ==
    /\ parse_pc = "scanning"
    /\ parse_line_idx = 3
    /\ parse_content[3] = "service S {"
    /\ parse_content[1] = "message M {"
    /\ parse_scan.message_stack = <<>>
    /\ Len(parse_scan.messages) = 1
    /\ Len(parse_scan.messages[1].fields) = 1
    /\ parse_scan.messages[1].end_line = 1
    /\ Len(parse_scan.services) = 1

\* the line without the text from `//` on
WithoutSlashes(line) ==
    IF Contains(line, "//") THEN Substr(line, 0, Find(line, "//")) ELSE line

\* C30: the scan of a line that holds `//` changes the scanner state and the
\* diagnostics as the scan of the same line cut at the `//` does
C30_LineCommentCutsLine ==
    [][/\ ParseScanLine
       /\ Contains(parse_content[parse_line_idx + 1], "//")
       => parse_scan' = ScanLine(parse_scan,
                                 [parse_content EXCEPT ![parse_line_idx + 1] =
                                      WithoutSlashes(@)],
                                 parse_line_idx)]_vars

(***************************************************************************)
(* Block comments, custom options and diagnostics of single lines.         *)
(***************************************************************************)

\* the scanner state after the line of the step, had the line been the text
ScannedAs(st, text) ==
    ScanLine(st, [parse_content EXCEPT ![parse_line_idx + 1] = text], parse_line_idx)

\* the scanner state without the columns of its diagnostics
NoColumns(st) ==
    [st EXCEPT !.parse_errors = [i \in DOMAIN @ |-> [@[i] EXCEPT !.character = 0]]]

\* the text before the first `/*` of the line
BeforeOpen(line) == Substr(line, 0, Find(line, "/*"))

\* the text after the first `*/` of the line
AfterClose(line) == SubstrFrom(line, Find(line, "*/") + 2)

\* the first `/*` of the line has a `*/` after it
ClosesAfterOpen(line) ==
    Find(line, "/*") # NoPos /\ Find(SubstrFrom(line, Find(line, "/*")), "*/") # NoPos

\* the line without its first comment `/* ... */`
WithoutComment(line) ==
    BeforeOpen(line)
    \o SubstrFrom(line, Find(line, "/*") + Find(SubstrFrom(line, Find(line, "/*")), "*/") + 2)

\* C31: for a line that does not start with `//`.  Flag unset, `/*` without a
\* later `*/`: the flag is set and the line is scanned as its text before the
\* `/*`.  Flag set, no `*/`: nothing changes.  Flag set, `*/`: the flag is
\* cleared and the line is scanned as its text after the `*/`.  Flag unset,
\* `/*` and a later `*/`: the line is scanned as the line without the comment
\* and the flag stays unset.  (Lines with one comment marker pair at most.)
C31_BlockCommentFlag ==
    [][/\ ParseScanLine
       /\ ~StartsWith(Trim(parse_content[parse_line_idx + 1]), "//")
       => \E line \in {parse_content[parse_line_idx + 1]} :
             IF parse_scan.in_block_comment
             THEN IF Find(line, "*/") = NoPos
                  THEN parse_scan' = parse_scan
                  ELSE Find(AfterClose(line), "/*") = NoPos
                       => NoColumns(parse_scan') =
                              NoColumns(ScannedAs([parse_scan EXCEPT !.in_block_comment = FALSE],
                                                  AfterClose(line)))
             ELSE IF Find(line, "/*") = NoPos
                  THEN ~parse_scan'.in_block_comment
                  ELSE IF ClosesAfterOpen(line)
                  THEN Find(WithoutComment(line), "/*") = NoPos
                       => NoColumns(parse_scan') = NoColumns(ScannedAs(parse_scan, WithoutComment(line)))
                  ELSE NoColumns(parse_scan') =
                       NoColumns([ScannedAs(parse_scan, BeforeOpen(line)) EXCEPT
                                      !.in_block_comment = TRUE])]_vars

\* the number of fields held by the frames of the message stack
StackFields(st) ==
    LET RECURSIVE Sum(_)
        Sum(i) == IF i = 0 THEN 0 ELSE Len(st.message_stack[i].fields) + Sum(i - 1)
    IN  Sum(Len(st.message_stack))

\* the diagnostics added by the step that report an invalid field or an
\* unexpected syntax
FieldDiagnostics(old, new) ==
    {i \in (Len(old.parse_errors) + 1)..Len(new.parse_errors) :
        \/ StartsWith(new.parse_errors[i].message, "Invalid field")
        \/ StartsWith(new.parse_errors[i].message, "Unexpected syntax")}

\* the scanner state without the brace count of the option tracker
NoBraceCount(st) == [st EXCEPT !.custom_option_brace_count = 0]

\* C32: for a scanned line without comment markers.  The tracker opens on a
\* line with `[` and `(`, counting the braces of that line from zero; while
\* open it adds the braces of each line; it is closed after the first line that
\* has `]` with a count <= 0.  A line that leaves the tracker open adds no field
\* and no invalid-field or unexpected-syntax diagnostic.  With the tracker
\* closed, the scan of a line does not depend on the count left behind.
C32_CustomOptionTracker ==
    [][/\ ParseScanLine
       /\ ~parse_scan.in_block_comment
       => \E line \in {parse_content[parse_line_idx + 1]} :
          \E t \in {Trim(parse_content[parse_line_idx + 1])} :
             (/\ Len(t) > 0 /\ ~StartsWith(t, "//")
              /\ Find(line, "/*") = NoPos)
             => \E opens \in {Contains(t, "[") /\ Contains(t, "(")} :
                \E depth \in {IF opens THEN BraceDelta(line)
                              ELSE IF parse_scan.in_custom_option
                              THEN parse_scan.custom_option_brace_count + BraceDelta(line)
                              ELSE parse_scan.custom_option_brace_count} :
                   /\ parse_scan'.custom_option_brace_count = depth
                   /\ parse_scan'.in_custom_option =
                          (/\ opens \/ parse_scan.in_custom_option
                           /\ ~(Contains(t, "]") /\ depth <= 0))
                   /\ parse_scan'.in_custom_option
                      => /\ StackFields(parse_scan') <= StackFields(parse_scan)
                         /\ FieldDiagnostics(parse_scan, parse_scan') = {}
                   /\ (~opens /\ ~parse_scan.in_custom_option)
                      => NoBraceCount(parse_scan') = NoBraceCount(ScannedAs(NoBraceCount(parse_scan), line))]_vars

\* C32 witness: the tracker opened on `int32 x = 1 [(o) = {`, stayed open over
\* the body line `a: 1` without a diagnostic, closed on `}];`, and the field of
\* the next line was added
C32_Witness ==
    /\ parse_pc = "scanning"
    /\ parse_content = <<"message M {", "int32 x = 1 [(o) = {", "a: 1", "}];", "int32 y = 2;", "}">>
    /\ parse_line_idx = 5
    /\ ~parse_scan.in_custom_option
    /\ parse_scan.parse_errors = <<>>
    /\ Len(parse_scan.message_stack) = 1
    /\ Len(Last(parse_scan.message_stack).fields) = 1
    /\ Last(parse_scan.message_stack).fields[1].name = "y"

\* the trimmed line is of none of the kinds the scanner knows
UnknownKind(t) ==
    /\ \A w \in {"package", "import", "message", "enum", "service", "rpc", "option",
                 "extend", "oneof", "syntax", "optional", "required", "repeated"} :
           t # w /\ ~StartsWith(t, w \o " ")
    /\ t # "}"
    /\ ~Contains(t, "=")
    /\ ~EndsWith(t, ";") /\ ~EndsWith(t, "{") /\ ~EndsWith(t, "}")

\* C33: a scanned line of no known kind, outside comments, option bodies and
\* multi-line fields, that does not end in `;`, `{` or `}`, adds exactly one
\* diagnostic, a Warning "Unexpected syntax" at that line, whatever the nesting
\* depth, and the scan goes on
C33_UnexpectedSyntaxWarning ==
    [][/\ ParseScanLine
       /\ ~parse_scan.in_block_comment
       /\ ~parse_scan.in_custom_option
       /\ ~IsSome(parse_scan.multiline_field)
       /\ Find(parse_content[parse_line_idx + 1], "/") = NoPos
       /\ Len(Trim(parse_content[parse_line_idx + 1])) > 0
       /\ UnknownKind(Trim(parse_content[parse_line_idx + 1]))
       /\ ~parse_scan'.in_custom_option
       => /\ Len(parse_scan'.parse_errors) = Len(parse_scan.parse_errors) + 1
          /\ Last(parse_scan'.parse_errors).severity = "Warning"
          /\ StartsWith(Last(parse_scan'.parse_errors).message, "Unexpected syntax")
          /\ Last(parse_scan'.parse_errors).line = parse_line_idx
          /\ parse_scan'.current_line = parse_scan.current_line + 1]_vars

\* the diagnostics added by the step that are about `optional` in proto3
OptionalDiagnostics(old, new) ==
    {i \in (Len(old.parse_errors) + 1)..Len(new.parse_errors) :
        /\ Contains(new.parse_errors[i].message, "optional")
        /\ Contains(new.parse_errors[i].message, "proto3")}

\* C34: a line starting with `optional `, scanned inside a message outside
\* comments, option bodies and multi-line fields: when the document declared
\* proto3 the step adds one diagnostic about `optional` in proto3, of Warning
\* severity, at that line, and the scan goes on; when it did not, the step adds
\* no such diagnostic
C34_Proto3Optional ==
    [][/\ ParseScanLine
       /\ ~parse_scan.in_block_comment
       /\ ~parse_scan.in_custom_option /\ ~parse_scan'.in_custom_option
       /\ ~IsSome(parse_scan.multiline_field)
       /\ Len(parse_scan.message_stack) > 0 /\ Len(parse_scan.enum_stack) = 0
       /\ Find(parse_content[parse_line_idx + 1], "/") = NoPos
       /\ StartsWith(Trim(parse_content[parse_line_idx + 1]), "optional ")
       => /\ parse_scan'.current_line = parse_scan.current_line + 1
          /\ IF parse_scan.is_proto3
             THEN \E i \in OptionalDiagnostics(parse_scan, parse_scan') :
                     /\ OptionalDiagnostics(parse_scan, parse_scan') = {i}
                     /\ parse_scan'.parse_errors[i].severity = "Warning"
                     /\ parse_scan'.parse_errors[i].line = parse_line_idx
             ELSE OptionalDiagnostics(parse_scan, parse_scan') = {}]_vars

\* C35: in a text of well-formed lines, the scan of a bare `}` whose innermost
\* open block is a `oneof` block leaves the message stack and the enum stack
\* as they are
C35_FramelessBlockCloseKeepsStacks ==
    [][/\ ParseScanLine
       /\ \A i \in 1..Len(parse_content) : parse_content[i] \in WellFormedLines
       /\ parse_content[parse_line_idx + 1] = "}"
       /\ \E open \in {OpenBefore(parse_content, parse_line_idx)} :
             /\ open # <<>> /\ open # <<NoPos>>
             /\ IsOneofOpener(parse_content[Last(open) + 1])
       => /\ parse_scan'.message_stack = parse_scan.message_stack
          /\ parse_scan'.enum_stack = parse_scan.enum_stack]_vars

\* C36: every message and enum frame that is still open when the call returns
\* (its opener was scanned, its closing bare `}` never came) is a message or
\* enum of the returned document, with the fields collected for it
C36_OpenDefinitionsReturned ==
    ReturnedOk =>
        /\ \A i \in 1..Len(parse_scan.message_stack) :
              \E m \in SeqRange(AllMessages(ReturnedDoc.messages)) :
                 /\ m.name = parse_scan.message_stack[i].name
                 /\ m.line = parse_scan.message_stack[i].line
                 /\ m.fields = parse_scan.message_stack[i].fields
        /\ \A i \in 1..Len(parse_scan.enum_stack) :
              \E e \in SeqRange(AllEnums(ReturnedDoc)) :
                 /\ e.name = parse_scan.enum_stack[i].name
                 /\ e.line = parse_scan.enum_stack[i].line

\* C37: a text whose second line is the field `int32 x = 1` followed by an
\* option annotation that opens on that line, inside message M, gives M a
\* field x of type int32 and number 1, whether the annotation closes on that
\* line or on a later one
C37_AnnotatedFieldRecorded ==
    ReturnedOk /\ parse_content \in OptionTexts =>
        /\ Len(ReturnedDoc.messages) = 1
        /\ ReturnedDoc.messages[1].name = "M"
        /\ \E f \in SeqRange(ReturnedDoc.messages[1].fields) :
              /\ f.name = "x"
              /\ f.field_type = "int32"
              /\ f.number = 1
              /\ f.line = 1

(***************************************************************************)
(* The starting document in the collection and in the symbol index.        *)
(***************************************************************************)

\* how many symbols of the bucket have the name and kind
TimesIn(bucket, name, kind) ==
    Cardinality({i \in 1..Len(bucket) : bucket[i].name = name /\ bucket[i].kind = kind})

\* C38: when get_symbols_by_package(/w/a) returns, the collection it ran holds
\* no entry for /w/a itself, and no message of /w/a is in its bucket twice
C38_StartNotCollected ==
    symbols_pc = "done" /\ UriA \in DOMAIN files =>
        /\ \A i \in 1..Len(all_imports) : all_imports[i].uri # UriA
        /\ \A m \in SeqRange(AllMessages(files[UriA].messages)) :
              TimesIn(symbols_by_package[PackageName(files[UriA])], m.name, "Message") <= 1

\* the top-level definitions of a document as entries of the position index
TopLevelElements(doc) ==
    {[kind |-> "Message", elem |-> m] : m \in SeqRange(doc.messages)}
    \cup {[kind |-> "Enum", elem |-> e] : e \in SeqRange(doc.enums)}
    \cup {[kind |-> "Service", elem |-> sv] : sv \in SeqRange(doc.services)}

\* C39: in a returned document every entry of line_to_element is a top-level
\* message, enum or service that starts at the line of the entry, and every
\* top-level definition is the entry at its start line
C39_PositionIndexTopLevel ==
    ReturnedOk =>
        /\ \A l \in DOMAIN ReturnedDoc.line_to_element :
              /\ ReturnedDoc.line_to_element[l] \in TopLevelElements(ReturnedDoc)
              /\ ReturnedDoc.line_to_element[l].elem.line = l
        /\ \A el \in TopLevelElements(ReturnedDoc) :
              /\ el.elem.line \in DOMAIN ReturnedDoc.line_to_element
              /\ ReturnedDoc.line_to_element[el.elem.line] = el

(***************************************************************************)
(* The frame of open_file and close_file.                                   *)
(***************************************************************************)

\* every identity other than uri has the entry after the step that it had
\* before it, or none as before
OthersUnchanged(uri) ==
    \A y \in (DOMAIN files \cup DOMAIN files') \ {uri} :
        files_get(files', y) = files_get(files, y)

\* C40: a step of open_file on an identity (its parse, its insert) and a
\* close_file of an identity leave the entry of every other identity as it
\* was, whatever the other task is doing
C40_OtherEntriesUnchanged ==
    [][\A t \in Tasks :
          /\ \A call \in OpenCalls :
                open_file_parse(t, call[1], call[2]) => OthersUnchanged(call[1])
          /\ open_file_insert(t) => OthersUnchanged(task[t].uri)
          /\ \A uri \in Uris : close_file(t, uri) => OthersUnchanged(uri)]_vars

\* C40 witness: a close_file of /w/a has returned while /w/b has an entry and
\* the other task is between the parse and the insert of an open_file of /w/b
C40_Witness ==
    /\ ret.op = "close"
    /\ ret.uri = UriA
    /\ last_call[UriA].kind = "closed"
    /\ last_call[UriA].had
    /\ UriA \notin DOMAIN files
    /\ UriB \in DOMAIN files
    /\ \E o \in Tasks : task[o].pc = "insert" /\ task[o].op = "open" /\ task[o].uri = UriB

=============================================================================
